---- MODULE Spec2Model ----
(***************************************************************************)
(* Verification model of glimpse: the bundle adjuster (optimize.Cameras),  *)
(* its control objects (Points, Lines, Matches, RotationMatches), the      *)
(* construction tests (test_cameras), the sparsity pattern and RANSAC.     *)
(*                                                                         *)
(* Conventions.  A camera is its 20-slot `vector`, a function over the     *)
(* Python positions 0..19.  Flat parameter arrays (`values`, `params`)     *)
(* are sequences; the Python slice a[i:j] is SubSeq(a, i + 1, j).          *)
(* A parameter specification (the dicts `cam_params` / `group_params`) is  *)
(* a function from attribute names to [key, all, idx]: `key` says the      *)
(* name is a key of the dict, `all` that its value is True, `idx` the      *)
(* positions listed otherwise (empty for a falsy value).                   *)
(*                                                                         *)
(* Specifications.                                                         *)
(*   SpecConstruct  Cameras(...) on every small choice of arguments        *)
(*   Spec           set_cameras / reset_cameras / update_params /          *)
(*                  predicted on a constructed adjuster                    *)
(*   SpecFit        Cameras.fit step by step, after an optional            *)
(*                  set_cameras                                            *)
(*   SpecControls   one control whose cameras are written to               *)
(*   SpecRansac     the ransac loop                                        *)
(*   SpecKwargs     the solver keyword arguments Cameras.fit builds        *)
(*   SpecResize     Camera.resize calls on one camera                      *)
(*   SpecMasks      the parameter masks Cameras(...) builds                *)
(*   SpecProject    Camera.project and Camera.invproject                   *)
(*   SpecOriginal   Camera.vector and Camera.original_vector as arrays     *)
(*   SpecExif       Exif.datetime                                          *)
(*   SpecRegulaFalsi  Camera._undistort_regulafalsi pass by pass           *)
(***************************************************************************)
EXTENDS Integers, Sequences, FiniteSets, TLC

VARIABLES
    \* ---- Cameras (optimize.py 785-1087) and the objects it refers to
    cams,          \* cams[i]: Camera.vector of self.cams[i-1]
    vectors,       \* Cameras.vectors: the saved camera vectors
    cam_params,    \* Cameras.cam_params, one specification per camera
    group_params,  \* Cameras.group_params
    params,        \* Cameras.params: initial values and bounds
    controls,      \* Cameras.controls
    pc,            \* position inside Cameras.fit ("idle" outside)
    last,          \* the call that finished last, with its outcome
    ret,           \* value returned by the last fit / predicted call
    fitst,         \* the running fit: arguments, stage counter, history
    nops,          \* number of top-level calls made so far
    \* ---- construction of a Cameras object (test_cameras, build_sparsity)
    build,         \* arguments of Cameras(...) and the outcome
    \* ---- ransac (optimize.py 1235-1288)
    rs             \* locals of the running ransac call

camsVars == <<cams, vectors, cam_params, group_params, params, controls,
              pc, last, ret, fitst, nops>>
vars == <<cams, vectors, cam_params, group_params, params, controls,
          pc, last, ret, fitst, nops, build, rs>>

----------------------------------------------------------------------------
\* Bounds of the model
MaxOps == 3
MaxStages == 2
MaxRounds == 4
MaxIterations == 2
MaxControls == 2
MaxMoves == 2
MaxResizes == 2
MaxProjections == 2
MaxAssignments == 3
MaxDigits == 7
MaxPasses == 3
NumPoints == 3

\* Values a vector slot or a parameter may take (abstract units)
Values == {0, 1}

----------------------------------------------------------------------------
\* Layout of Camera.vector (image.py 77-131; optimize.py 1764-1765)

attributes == <<"xyz", "viewdir", "imgsz", "f", "c", "k", "p">>
indices == <<0, 3, 6, 8, 10, 12, 18, 20>>
VectorLen == 20
Slots == 0 .. (VectorLen - 1)
Inf == 1000000000
BoundScale == 80000

AttrIndex(key) == CHOOSE i \in 1 .. Len(attributes) : attributes[i] = key

\* dict values used below
NoKey == [key |-> FALSE, all |-> FALSE, idx |-> {}]
SelTrue == [key |-> TRUE, all |-> TRUE, idx |-> {}]
SelIdx(S) == [key |-> TRUE, all |-> FALSE, idx |-> S]
EmptyParams == [a \in {"xyz", "viewdir", "imgsz", "f", "c", "k", "p"} |-> NoKey]
Dict(keys, val) ==
    [a \in {"xyz", "viewdir", "imgsz", "f", "c", "k", "p"} |->
        IF a \in keys THEN val ELSE NoKey]
\* `key in params`
HasKey(prm, key) == prm[key].key

\* Default Camera() vector (image.py 50-52), in abstract units: imgsz and f
\* are 1 instead of 100.
DefaultVector == [s \in Slots |-> IF s \in 6 .. 9 THEN 1 ELSE 0]

\* Camera.xyz, Camera.vector[6:]
cam_xyz_of(v) == [s \in 0 .. 2 |-> v[s]]
internals_of(v) == [s \in 6 .. 19 |-> v[s]]

----------------------------------------------------------------------------
\* parse_params: the mask of selected positions (optimize.py 1764-1780)
parse_params_mask(prm) ==
    UNION { LET i == AttrIndex(key)
            IN  IF ~prm[key].key THEN {}
                ELSE IF prm[key].all
                THEN indices[i] .. (indices[i + 1] - 1)
                ELSE { indices[i] + j : j \in prm[key].idx }
            : key \in DOMAIN prm }

\* Ascending positions of a boolean mask (numpy boolean indexing order)
RECURSIVE MaskSeq(_)
MaskSeq(mask) ==
    IF mask = {} THEN <<>>
    ELSE LET m == CHOOSE x \in mask : \A y \in mask : x <= y
         IN  <<m>> \o MaskSeq(mask \ {m})

RECURSIVE SumSeq(_)
SumSeq(s) == IF s = <<>> THEN 0 ELSE Head(s) + SumSeq(Tail(s))

\* camera_bounds (optimize.py 1715-1734), every bound times BoundScale
camera_bounds(v) ==
    LET k == 10 * (v[8] + v[9])
        p == v[8] + v[9]
    IN  [s \in Slots |->
            IF s \in 0 .. 5 THEN <<-Inf, Inf>>
            ELSE IF s \in 6 .. 9 THEN <<0, Inf>>
            ELSE IF s \in 10 .. 11
                 THEN <<-(BoundScale \div 2) * v[6], (BoundScale \div 2) * v[7]>>
            ELSE IF s \in {13, 14} THEN <<-(k \div 2), k \div 2>>
            ELSE IF s \in 12 .. 17 THEN <<-k, k>>
            ELSE <<-p, p>>]

Max(S) == CHOOSE x \in S : \A y \in S : y <= x
Min(S) == CHOOSE x \in S : \A y \in S : x <= y

\* default_group_bounds (optimize.py 1815-1817)
default_group_bounds(cs) ==
    [s \in Slots |->
        << Max({ camera_bounds(cs[i])[s][1] : i \in DOMAIN cs }),
           Min({ camera_bounds(cs[i])[s][2] : i \in DOMAIN cs }) >>]

----------------------------------------------------------------------------
\* build_lmfit_params (optimize.py 1800-1840): the entries handed to
\* lmfit.Parameters.add, in order.  cam = -1 marks a group parameter
\* (label without the cam<i>_ prefix).
ParamEntry(c, s, v, b) == [cam |-> c, slot |-> s, value |-> v, min |-> b[1], max |-> b[2]]

group_entries(cs, gprm) ==
    LET gseq == MaskSeq(parse_params_mask(gprm))
        gb == default_group_bounds(cs)
    IN  [j \in 1 .. Len(gseq) |-> ParamEntry(-1, gseq[j], cs[1][gseq[j]], gb[gseq[j]])]

cam_entries(cs, cprm, i) ==
    LET cseq == MaskSeq(parse_params_mask(cprm[i]))
        cb == camera_bounds(cs[i])
    IN  [j \in 1 .. Len(cseq) |-> ParamEntry(i - 1, cseq[j], cs[i][cseq[j]], cb[cseq[j]])]

RECURSIVE cam_entries_from(_, _, _)
cam_entries_from(cs, cprm, i) ==
    IF i > Len(cs) \/ i > Len(cprm) THEN <<>>
    ELSE cam_entries(cs, cprm, i) \o cam_entries_from(cs, cprm, i + 1)

build_lmfit_params(cs, cprm, gprm) ==
    group_entries(cs, gprm) \o cam_entries_from(cs, cprm, 1)

\* Number of parameters: n_group + sum(n_cams)
n_group_of(gprm) == Cardinality(parse_params_mask(gprm))
n_cams_of(cprm) == [i \in DOMAIN cprm |-> Cardinality(parse_params_mask(cprm[i]))]
n_params(cprm, gprm) == n_group_of(gprm) + SumSeq(n_cams_of(cprm))

\* cam_breaks = np.cumsum([n_group] + n_cams) (optimize.py 1848), 1-based
cam_breaks(cprm, gprm) ==
    [i \in 1 .. (Len(cprm) + 1) |->
        n_group_of(gprm) + SumSeq(SubSeq(n_cams_of(cprm), 1, i - 1))]

\* cam.vector[mask] = block, block in ascending mask position
AssignMasked(v, mask, block) ==
    LET mseq == MaskSeq(mask)
    IN  [s \in Slots |->
            IF s \in mask
            THEN block[CHOOSE j \in 1 .. Len(mseq) : mseq[j] = s]
            ELSE v[s]]

\* apply_params (optimize.py 1842-1851)
apply_params_camfirst(cs, cprm, gprm, values) ==
    LET n_group == n_group_of(gprm)
        breaks == cam_breaks(cprm, gprm)
    IN  [i \in DOMAIN cs |->
            AssignMasked(
                AssignMasked(cs[i], parse_params_mask(gprm), SubSeq(values, 1, n_group)),
                parse_params_mask(cprm[i]),
                SubSeq(values, breaks[i] + 1, breaks[i + 1]))]

\* apply_params writing the group values into the first camera only
apply_params_group_to_first(cs, cprm, gprm, values) ==
    LET n_group == n_group_of(gprm)
        breaks == cam_breaks(cprm, gprm)
    IN  [i \in DOMAIN cs |->
            LET own == AssignMasked(cs[i], parse_params_mask(cprm[i]),
                                    SubSeq(values, breaks[i] + 1, breaks[i + 1]))
            IN  IF i = 1
                THEN AssignMasked(own, parse_params_mask(gprm), SubSeq(values, 1, n_group))
                ELSE own]

apply_params(cs, cprm, gprm, values) ==
    LET n_group == n_group_of(gprm)
        group_values == SubSeq(values, 1, n_group)
        breaks == cam_breaks(cprm, gprm)
    IN  [i \in DOMAIN cs |->
            AssignMasked(
                AssignMasked(cs[i], parse_params_mask(cprm[i]),
                    SubSeq(values, breaks[i] + 1, breaks[i + 1])),
                parse_params_mask(gprm),
                group_values)]

\* The flat value arrays a caller or the solver may produce
ValueArrays(n) == [1 .. n -> Values]

----------------------------------------------------------------------------
\* Controls.  A control is a record
\*   kind        "Points" | "Lines" | "Matches" | "RotationMatches" |
\*               "RotationMatchesXY" | "RotationMatchesXYZ"
\*   cams        the camera(s) it refers to (.cam, or the pair .cams)
\*   directions  Points / Lines only
\*   size        number of observations
\*   cam_xyz     cam.xyz.copy() taken by Points / Lines __init__
\*   original_internals  cams[0].vector.copy()[6:] taken by RotationMatches*
MatchesKinds == {"Matches", "RotationMatches", "RotationMatchesXY", "RotationMatchesXYZ"}
RotationKinds == {"RotationMatches", "RotationMatchesXY", "RotationMatchesXYZ"}
PointKinds == {"Points", "Lines"}

\* Points.__init__ / Lines.__init__ (optimize.py 32-41, 157-170)
NewPoints(kind, c, directions, size, cs) ==
    [kind |-> kind, cams |-> <<c>>, directions |-> directions, size |-> size,
     cam_xyz |-> cam_xyz_of(cs[c]), original_internals |-> internals_of(cs[c])]

\* Matches.__init__ (344-349), RotationMatches*.__init__ (501-508, 590-597, 659-666)
NewMatches(kind, c0, c1, size, cs) ==
    [kind |-> kind, cams |-> <<c0, c1>>, directions |-> FALSE, size |-> size,
     cam_xyz |-> cam_xyz_of(cs[c0]), original_internals |-> internals_of(cs[c0])]

\* _test_matches and _test_rotation_matches (355-364, 526-528): whether the
\* constructor accepts the pair
MatchesConstructible(kind, c0, c1, cs) ==
    /\ c0 # c1
    /\ kind \in RotationKinds => internals_of(cs[c0]) = internals_of(cs[c1])

\* (isinstance(control, Matches) and control.cams) or [control.cam]
control_cams(control) == { control.cams[j] : j \in DOMAIN control.cams }

\* isinstance(control, (Points, Lines)) and control.directions
is_directions_control(control) ==
    control.kind \in PointKinds /\ control.directions

SeqRange(s) == { s[j] : j \in DOMAIN s }

RECURSIVE FilterControls(_, _)
FilterControls(ctrls, keep) ==
    IF ctrls = <<>> THEN <<>>
    ELSE (IF control_cams(Head(ctrls)) \cap keep # {} THEN <<Head(ctrls)>> ELSE <<>>)
         \o FilterControls(Tail(ctrls), keep)

\* prune_controls (optimize.py 1601-1613)
prune_controls_keep_all(camids, ctrls) == ctrls
prune_controls(camids, ctrls) == FilterControls(ctrls, SeqRange(camids))

\* is_directions_cam of test_cameras (1635-1637): one entry per (camera,
\* control) pair, cameras outermost
is_directions_cam(camids, ctrls) ==
    [t \in 1 .. (Len(camids) * Len(ctrls)) |->
        LET ci == ((t - 1) \div Len(ctrls)) + 1
            k == ((t - 1) % Len(ctrls)) + 1
        IN  is_directions_control(ctrls[k]) /\ camids[ci] \in control_cams(ctrls[k])]

\* test_cameras (optimize.py 1615-1649).  camids: model.cams; vec: the
\* vector of each camera; ctrls: model.controls (already pruned).
\* Returns "ok" or the ValueError raised.
test_cameras(camids, vec, ctrls, cprm, gprm) ==
    LET is_xyz_cam == [j \in DOMAIN cprm |-> HasKey(cprm[j], "xyz")]
        dcam == is_directions_cam(camids, ctrls)
        control_cams_flat == UNION { control_cams(ctrls[k]) : k \in DOMAIN ctrls }
        sizes == { <<vec[camids[i]][6], vec[camids[i]][7]>> : i \in DOMAIN camids }
    IN  IF ctrls = <<>>
        THEN "ValueError: No controls reference the cameras"
        ELSE IF (HasKey(gprm, "f") \/ HasKey(gprm, "c")) /\ Cardinality(sizes) > 1
        THEN "ValueError: f or c in group_params but image sizes not equal"
        ELSE IF Cardinality(SeqRange(camids) \cap control_cams_flat) < Len(camids)
        THEN "ValueError: Not all cameras appear in controls"
        ELSE IF HasKey(gprm, "xyz") /\ \E k \in DOMAIN ctrls : is_directions_control(ctrls[k])
        THEN "ValueError: xyz cannot be in group_params if any control.directions is True"
        ELSE IF \E j \in DOMAIN is_xyz_cam \cap DOMAIN dcam : is_xyz_cam[j] /\ dcam[j]
        THEN "ValueError: xyz cannot be in cam_params if control.directions is True for control involving that camera"
        ELSE "ok"

IsValueError(r) == r # "ok"

----------------------------------------------------------------------------
\* Sparsity (optimize.py 911-938).  The matrix is the set of its nonzero
\* (row, column) positions, both 0-based.

\* ctrl_ends = np.cumsum([0] + m_control), cam_ends = np.cumsum([0] + n_cams) + n_group
ctrl_ends(ctrls) ==
    [i \in 1 .. (Len(ctrls) + 1) |->
        SumSeq([k \in 1 .. (i - 1) |-> 2 * ctrls[k].size])]
cam_ends(cprm, gprm) == cam_breaks(cprm, gprm)

sparsity_shape(ctrls, cprm, gprm) ==
    [m |-> ctrl_ends(ctrls)[Len(ctrls) + 1], n |-> n_params(cprm, gprm)]

\* position of cam in self.cams (list.index), 1-based
cams_index(camids, cam) ==
    CHOOSE j \in DOMAIN camids :
        camids[j] = cam /\ \A h \in DOMAIN camids : camids[h] = cam => j <= h

build_sparsity_dense(camids, ctrls, cprm, gprm) ==
    LET shape == sparsity_shape(ctrls, cprm, gprm)
    IN  (0 .. (shape.m - 1)) \X (0 .. (shape.n - 1))

build_sparsity(camids, ctrls, cprm, gprm) ==
    LET shape == sparsity_shape(ctrls, cprm, gprm)
        n_group == n_group_of(gprm)
        ce == ctrl_ends(ctrls)
        ends == cam_ends(cprm, gprm)
        group_part == (0 .. (shape.m - 1)) \X (0 .. (n_group - 1))
        cam_part ==
            UNION { UNION { (ce[i] .. (ce[i + 1] - 1)) \X
                              (ends[cams_index(camids, cam)] ..
                                 (ends[cams_index(camids, cam) + 1] - 1))
                            : cam \in control_cams(ctrls[i]) \cap SeqRange(camids) }
                    : i \in DOMAIN ctrls }
    IN  group_part \cup cam_part

----------------------------------------------------------------------------
\* Construction of a Cameras object: Cameras.__init__ (optimize.py 817-854)
\* over every small choice of cameras, controls and parameter selections.

CamIds == {1, 2}

\* model.cams: the cameras in any order
CamLists ==
    { s \in UNION { [1 .. n -> CamIds] : n \in 1 .. Cardinality(CamIds) } :
        \A i, j \in DOMAIN s : i # j => s[i] # s[j] }

\* A camera with another image size
WideVector == [DefaultVector EXCEPT ![6] = 0]
BuildVecs == { v \in [CamIds -> {DefaultVector, WideVector}] : v[1] = DefaultVector }

ControlSize(kind) == IF kind \in {"Lines", "RotationMatches"} THEN 2 ELSE 1

ControlChoices(vec) ==
    { NewPoints(kind, c, d, ControlSize(kind), vec) :
        kind \in PointKinds, c \in CamIds, d \in BOOLEAN }
    \cup
    { NewMatches(kind, 1, 2, ControlSize(kind), vec) :
        kind \in { k \in {"Matches", "RotationMatches"} : MatchesConstructible(k, 1, 2, vec) } }

ControlLists(vec) ==
    UNION { [1 .. n -> ControlChoices(vec)] : n \in 0 .. MaxControls }

BuildCamParams == { EmptyParams, Dict({"xyz"}, SelTrue), Dict({"viewdir"}, SelIdx({0})) }
BuildGroupParams == { EmptyParams, Dict({"xyz"}, SelIdx({0})), Dict({"f"}, SelIdx({0})) }

NoBuild ==
    [stage |-> "none", cams |-> <<>>, vec |-> <<>>, controls |-> <<>>,
     cam_params |-> <<>>, group_params |-> EmptyParams,
     result |-> "none", pruned |-> <<>>, sparsity |-> {}]

\* Values of the variables of a part of the model that a specification
\* leaves out
NoCameras ==
    /\ cams = <<>>
    /\ vectors = <<>>
    /\ cam_params = <<>>
    /\ group_params = EmptyParams
    /\ params = <<>>
    /\ controls = <<>>
    /\ pc = "none"
    /\ last = [op |-> "none"]
    /\ ret = [kind |-> "none"]
    /\ fitst = [n |-> 0]
    /\ nops = 0

NoRansac == [pc |-> "none"]

InitConstruct ==
    /\ \E cl \in CamLists, vec \in BuildVecs :
         \E ctrls \in ControlLists(vec) :
           \E cprm \in [1 .. Len(cl) -> BuildCamParams], gprm \in BuildGroupParams :
              build = [stage |-> "args", cams |-> cl, vec |-> vec, controls |-> ctrls,
                       cam_params |-> cprm, group_params |-> gprm,
                       result |-> "none", pruned |-> <<>>, sparsity |-> {}]
    /\ NoCameras
    /\ rs = NoRansac

\* Cameras.__init__ (optimize.py 817-854): prune the controls, test, then
\* build masks and sparsity.  A ValueError leaves no object.
CamerasInit ==
    /\ build.stage = "args"
    /\ LET pruned == prune_controls(build.cams, build.controls)
           r == test_cameras(build.cams, build.vec, pruned,
                             build.cam_params, build.group_params)
       IN  build' = [build EXCEPT
                        !.stage = "done",
                        !.result = r,
                        !.pruned = pruned,
                        !.sparsity =
                            IF r = "ok"
                            THEN build_sparsity(build.cams, pruned,
                                                build.cam_params, build.group_params)
                            ELSE {}]
    /\ UNCHANGED <<camsVars, rs>>

NextConstruct == CamerasInit

SpecConstruct == InitConstruct /\ [][NextConstruct]_vars

\* ---- C2 ----------------------------------------------------------------
\* C2: constructing Cameras raises ValueError whenever 'xyz' is a key of
\* group_params and some Points/Lines control referencing the cameras has
\* directions=True, and whenever for some camera i 'xyz' is a key of
\* cam_params[i] and some control with directions=True references camera i.
XyzWithDirections(b) ==
    \/ /\ HasKey(b.group_params, "xyz")
       /\ \E k \in DOMAIN b.pruned : is_directions_control(b.pruned[k])
    \/ \E i \in DOMAIN b.cams :
          /\ HasKey(b.cam_params[i], "xyz")
          /\ \E k \in DOMAIN b.pruned :
                /\ is_directions_control(b.pruned[k])
                /\ b.cams[i] \in control_cams(b.pruned[k])

C2_XyzWithDirectionsRaises ==
    (build.stage = "done" /\ XyzWithDirections(build)) => IsValueError(build.result)

\* ---- C15 ---------------------------------------------------------------
\* Positions of the given controls that reference one of the cameras
Referencing(b) ==
    { k \in DOMAIN b.controls :
        \E i \in DOMAIN b.cams : b.cams[i] \in control_cams(b.controls[k]) }

\* C15: constructing Cameras raises ValueError when some camera of `cams`
\* is referenced by none of the given controls; Cameras.controls holds, in
\* their order, exactly the given controls that reference one of the
\* cameras, and construction raises if none does.
C15_UnreferencedCameraRaises ==
    build.stage = "done" =>
        /\ (\E i \in DOMAIN build.cams :
               \A k \in DOMAIN build.controls :
                  build.cams[i] \notin control_cams(build.controls[k]))
             => IsValueError(build.result)
        /\ Len(build.pruned) = Cardinality(Referencing(build))
        /\ \A j \in DOMAIN build.pruned :
              build.pruned[j] =
                build.controls[CHOOSE k \in Referencing(build) :
                    Cardinality({ h \in Referencing(build) : h < k }) = j - 1]
        /\ Referencing(build) = {} => IsValueError(build.result)

\* Two cameras, controls that were kept, and one camera left out of them
C15_Witness ==
    /\ build.stage = "done"
    /\ Len(build.cams) = 2 /\ Len(build.pruned) = 2
    /\ \A k \in DOMAIN build.controls : control_cams(build.controls[k]) = {build.cams[1]}
    /\ build.result = "ValueError: Not all cameras appear in controls"

\* ---- C10 ---------------------------------------------------------------
\* C10: in the matrix of build_sparsity every row has all group columns
\* set, and the 2*size rows of a control have an entry in a column of
\* camera j's block if and only if the control references camera j.
RowsOf(b, k) == ctrl_ends(b.pruned)[k] .. (ctrl_ends(b.pruned)[k + 1] - 1)
BlockOf(b, j) ==
    cam_ends(b.cam_params, b.group_params)[j] ..
        (cam_ends(b.cam_params, b.group_params)[j + 1] - 1)

C10_SparsityPattern ==
    (build.stage = "done" /\ build.result = "ok") =>
        /\ \A r \in 0 .. (sparsity_shape(build.pruned, build.cam_params, build.group_params).m - 1) :
             \A c \in 0 .. (n_group_of(build.group_params) - 1) :
                <<r, c>> \in build.sparsity
        /\ \A k \in DOMAIN build.pruned : \A j \in DOMAIN build.cams :
             \A r \in RowsOf(build, k) : \A c \in BlockOf(build, j) :
                (<<r, c>> \in build.sparsity) <=>
                    (build.cams[j] \in control_cams(build.pruned[k]))

\* A two-camera adjuster with a shared parameter and parameters of each
\* camera, holding a control that references only the second camera.
C10_Witness ==
    /\ build.stage = "done" /\ build.result = "ok"
    /\ Len(build.cams) = 2
    /\ n_group_of(build.group_params) > 0
    /\ \A j \in DOMAIN build.cams : BlockOf(build, j) # {}
    /\ \E k \in DOMAIN build.pruned :
          /\ control_cams(build.pruned[k]) = {build.cams[2]}
          /\ \A r \in RowsOf(build, k) :
                /\ \E c \in BlockOf(build, 2) : <<r, c>> \in build.sparsity
                /\ \A c \in BlockOf(build, 1) : <<r, c>> \notin build.sparsity

----------------------------------------------------------------------------
\* RANSAC (optimize.py 1235-1306).  The model object is abstract: its data
\* are the indices 0 .. data_size-1, its parameter values are ParamIds,
\* errors(params, index) reads a table, and fit(index) may return any
\* parameter value or None.

ParamIds == {"p1", "p2"}
None == "None"
DataSize == 3
ErrTables ==
    { [q \in ParamIds |-> [d \in 0 .. (DataSize - 1) |-> IF q = "p1" THEN d ELSE 1]],
      [q \in ParamIds |-> [d \in 0 .. (DataSize - 1) |-> IF q = "p1" THEN 2 - d ELSE 0]] }

\* model.fit(index): the values a model may return for an index array
FitResults(index) == ParamIds \cup {None}

\* np.random.shuffle(np.arange(data_size)): any order of the indices
Shuffles(n) ==
    { s \in [1 .. n -> 0 .. (n - 1)] : \A a, b \in 1 .. n : a # b => s[a] # s[b] }

\* ransac_sample (optimize.py 1290-1306) for one outcome of the shuffle
ransac_sample_overlapping(sample_size, data_size, shuffled) ==
    [error |-> FALSE,
     maybe_idx |-> SubSeq(shuffled, 1, sample_size),
     test_idx |-> SubSeq(shuffled, sample_size, data_size)]

ransac_sample(sample_size, data_size, shuffled) ==
    IF sample_size >= data_size
    THEN [error |-> TRUE, maybe_idx |-> <<>>, test_idx |-> <<>>]
    ELSE [error |-> FALSE,
          maybe_idx |-> SubSeq(shuffled, 1, sample_size),
          test_idx |-> SubSeq(shuffled, sample_size + 1, data_size)]

RECURSIVE SelectSeq2(_, _, _)
\* test_idx[test_errs < max_error]
SelectSeq2(idx, errs, max_error) ==
    IF idx = <<>> THEN <<>>
    ELSE (IF errs[Head(idx)] < max_error THEN <<Head(idx)>> ELSE <<>>)
         \o SelectSeq2(Tail(idx), errs, max_error)

\* np.mean(errors) as the pair <<sum, count>>; np.inf is <<1, 0>>
MeanOf(errs, idx) == << SumSeq([j \in DOMAIN idx |-> errs[idx[j]]]), Len(idx) >>
InfErr == <<1, 0>>
\* a < b for two such means
MeanLess(a, b) == IF b[2] = 0 THEN a[2] # 0 ELSE a[2] # 0 /\ a[1] * b[2] < b[1] * a[2]

\* params = None before the loop (optimize.py 1259)
initial_params_first == "p1"
initial_params == None

InitRansac ==
    /\ \E iterations \in 1 .. MaxIterations, sample_size \in 1 .. (DataSize + 1),
          max_error \in 1 .. 2, min_inliers \in 0 .. 1, tbl \in ErrTables :
         rs = [pc |-> "loop", iterations |-> iterations, sample_size |-> sample_size,
               max_error |-> max_error, min_inliers |-> min_inliers,
               data_size |-> DataSize, errors |-> tbl,
               i |-> 0, params |-> initial_params, err |-> InfErr, inlier_idx |-> [none |-> TRUE],
               rounds |-> 0, skipped |-> 0, result |-> None,
               sample |-> [error |-> FALSE, maybe_idx |-> <<>>, test_idx |-> <<>>],
               accepted |-> {}, prev_err |-> InfErr, search_idx |-> <<>>,
               returned |-> [none |-> TRUE]]
    /\ NoCameras
    /\ build = NoBuild

\* After `continue`, or after the end of the loop body: i as the loop
\* leaves it (optimize.py 1266-1267, 1275-1276, 1283)
i_after_skip(i) == i
i_after_round(i) == i + 1

\* if this_err < err (optimize.py 1279)
keeps_candidate_on_ties(this_err, err) == ~MeanLess(err, this_err)
keeps_candidate(this_err, err) == MeanLess(this_err, err)

\* One pass of the while loop (optimize.py 1262-1283)
RansacRound ==
    /\ rs.pc = "loop"
    /\ rs.i < rs.iterations
    /\ rs.rounds < MaxRounds
    /\ \E shuffled \in Shuffles(rs.data_size) :
         LET smp == ransac_sample(rs.sample_size, rs.data_size, shuffled)
         IN  IF smp.error
             THEN rs' = [rs EXCEPT !.pc = "raised", !.rounds = @ + 1, !.sample = smp,
                                   !.result = "ValueError: sample_size"]
             ELSE \E maybe_params \in FitResults(smp.maybe_idx) :
                    IF maybe_params = None
                    THEN rs' = [rs EXCEPT !.rounds = @ + 1, !.skipped = @ + 1,
                                          !.sample = smp, !.prev_err = rs.err,
                                          !.i = i_after_skip(@)]
                    ELSE LET also_idx == SelectSeq2(smp.test_idx, rs.errors[maybe_params],
                                                    rs.max_error)
                         IN  IF Len(also_idx) > rs.min_inliers
                             THEN LET better_idx == smp.maybe_idx \o also_idx
                                  IN  \E better_params \in FitResults(better_idx) :
                                        IF better_params = None
                                        THEN rs' = [rs EXCEPT !.rounds = @ + 1,
                                                              !.skipped = @ + 1,
                                                              !.sample = smp,
                                                              !.prev_err = rs.err,
                                                              !.i = i_after_skip(@)]
                                        ELSE LET this_err == MeanOf(rs.errors[better_params], better_idx)
                                                 cand == [params |-> better_params,
                                                          err |-> this_err]
                                             IN  IF keeps_candidate(this_err, rs.err)
                                                 THEN rs' = [rs EXCEPT
                                                                !.rounds = @ + 1,
                                                                !.sample = smp,
                                                                !.accepted = @ \cup {cand},
                                                                !.prev_err = rs.err,
                                                                !.params = better_params,
                                                                !.err = this_err,
                                                                !.inlier_idx = [none |-> FALSE, val |-> better_idx],
                                                                !.search_idx = better_idx,
                                                                !.i = i_after_round(@)]
                                                 ELSE rs' = [rs EXCEPT !.rounds = @ + 1,
                                                                       !.sample = smp,
                                                                       !.accepted = @ \cup {cand},
                                                                       !.prev_err = rs.err,
                                                                       !.i = i_after_round(@)]
                             ELSE rs' = [rs EXCEPT !.rounds = @ + 1, !.sample = smp,
                                                   !.prev_err = rs.err,
                                                   !.i = i_after_round(@)]
    /\ UNCHANGED <<camsVars, build>>

\* np.where(model.errors(params) <= max_error)[0]
final_inliers_of_search(errs, max_error, data_size) == SeqRange(rs.search_idx)
final_inliers(errs, max_error, data_size) ==
    { d \in 0 .. (data_size - 1) : errs[d] <= max_error }

\* Leaving the loop (optimize.py 1284-1288)
RansacReturn ==
    /\ rs.pc = "loop"
    /\ ~(rs.i < rs.iterations)
    /\ IF rs.params = None
       THEN rs' = [rs EXCEPT !.pc = "raised",
                             !.result = "ValueError: Best fit does not meet acceptance criteria"]
       ELSE rs' = [rs EXCEPT
                      !.pc = "done",
                      !.inlier_idx = [none |-> FALSE,
                                      val |-> final_inliers(rs.errors[rs.params],
                                                            rs.max_error, rs.data_size)],
                      !.returned = [none |-> FALSE, params |-> rs.params,
                                    inlier_idx |-> final_inliers(rs.errors[rs.params],
                                                                 rs.max_error, rs.data_size)],
                      !.result = "returned"]
    /\ UNCHANGED <<camsVars, build>>

NextRansac == RansacRound \/ RansacReturn

SpecRansac == InitRansac /\ [][NextRansac]_vars

\* ---- C3 ----------------------------------------------------------------
\* C3: ransac performs at most `iterations` passes of its loop: a pass in
\* which model.fit returns None is skipped and still counts against the
\* iteration budget.
C3_RoundsWithinBudget == rs.pc # "none" => rs.rounds <= rs.iterations

\* ---- C11 ---------------------------------------------------------------
\* C11: when ransac ends and no round has yielded an accepted candidate, it
\* has raised ValueError and has returned neither parameters nor an inlier
\* index.
C11_NoCandidateRaises ==
    rs.pc \in {"done", "raised"} /\ rs.accepted = {} =>
        /\ rs.pc = "raised"
        /\ rs.result \in {"ValueError: Best fit does not meet acceptance criteria",
                          "ValueError: sample_size"}
        /\ rs.returned = [none |-> TRUE]

\* The budget ran out after rounds whose candidates were all rejected
C11_Witness ==
    /\ rs.pc = "raised" /\ rs.accepted = {}
    /\ rs.result = "ValueError: Best fit does not meet acceptance criteria"
    /\ rs.i = rs.iterations /\ rs.iterations = 2
    /\ rs.returned = [none |-> TRUE]

\* ---- C12 ---------------------------------------------------------------
\* C12: the parameters ransac returns are those of an accepted candidate
\* whose mean refit error is smallest among the accepted candidates of the
\* run, and from one round to the next the best-so-far mean error stays or
\* is replaced by a strictly smaller one.
C12_BestAcceptedCandidate ==
    /\ rs.pc \in {"loop", "done"} =>
          rs.err = rs.prev_err \/ MeanLess(rs.err, rs.prev_err)
    /\ rs.pc = "done" =>
          \E a \in rs.accepted :
             /\ a.params = rs.returned.params
             /\ a.err = rs.err
             /\ \A b \in rs.accepted : ~MeanLess(b.err, a.err)

\* Two candidates with different mean errors were accepted, and the one
\* returned is not the first that was kept
C12_Witness ==
    /\ rs.pc = "done"
    /\ \E a, b \in rs.accepted : MeanLess(a.err, b.err) /\ a.params # b.params
    /\ rs.prev_err # InfErr /\ MeanLess(rs.err, rs.prev_err)

\* ---- C13 ---------------------------------------------------------------
\* C13: the inlier index ransac returns is the set of all data indices whose
\* error under the returned parameters is at most max_error, not the inlier
\* set kept during the search.
C13_InliersRecomputed ==
    rs.pc = "done" =>
        rs.returned.inlier_idx =
            { d \in 0 .. (rs.data_size - 1) :
                rs.errors[rs.returned.params][d] <= rs.max_error }

\* The returned index differs from the index kept during the search
C13_Witness ==
    /\ rs.pc = "done"
    /\ rs.returned.inlier_idx # SeqRange(rs.search_idx)

\* ---- C14 ---------------------------------------------------------------
\* C14: ransac_sample returns a sample of length sample_size and a test
\* index of length data_size - sample_size that are disjoint and together
\* hold each index 0 .. data_size-1 exactly once; it raises ValueError when
\* sample_size >= data_size.
C14_SamplePartition ==
    rs.pc # "none" /\ rs.rounds > 0 =>
        IF rs.sample_size >= rs.data_size
        THEN rs.sample.error /\ rs.pc = "raised"
        ELSE /\ ~rs.sample.error
             /\ Len(rs.sample.maybe_idx) = rs.sample_size
             /\ Len(rs.sample.test_idx) = rs.data_size - rs.sample_size
             /\ SeqRange(rs.sample.maybe_idx) \cap SeqRange(rs.sample.test_idx) = {}
             /\ \A d \in 0 .. (rs.data_size - 1) :
                   Cardinality({ j \in DOMAIN rs.sample.maybe_idx : rs.sample.maybe_idx[j] = d })
                   + Cardinality({ j \in DOMAIN rs.sample.test_idx : rs.sample.test_idx[j] = d })
                   = 1

\* A sample of two indices out of order with a test index of one
C14_Witness ==
    /\ rs.pc = "loop" /\ rs.rounds > 0
    /\ Len(rs.sample.maybe_idx) = 2 /\ Len(rs.sample.test_idx) = rs.data_size - 2
    /\ rs.sample.maybe_idx[1] > rs.sample.maybe_idx[2]

----------------------------------------------------------------------------
\* The Cameras object in use (optimize.py 856-1087).

\* Whether control.predicted() raises ValueError for the camera vectors cs:
\* Points.predicted (70-71), Lines.project (197-198), Matches.predicted
\* (387-388), RotationMatches*.predicted (538-541, 624-627, 685-688)
is_static_to_recorded(control, cs) ==
    cam_xyz_of(cs[control.cams[1]]) = control.cam_xyz

is_static(control, cs) ==
    IF control.kind \in PointKinds
    THEN cam_xyz_of(cs[control.cams[1]]) = control.cam_xyz
    ELSE cam_xyz_of(cs[control.cams[1]]) = cam_xyz_of(cs[control.cams[2]])

is_original_internals_first_only(control, cs) ==
    internals_of(cs[control.cams[1]]) = control.original_internals

is_original_internals(control, cs) ==
    /\ internals_of(cs[control.cams[1]]) = control.original_internals
    /\ internals_of(cs[control.cams[2]]) = control.original_internals

predicted_raises_always_checked(control, cs) == ~is_static(control, cs)

predicted_raises(control, cs) ==
    IF control.kind \in PointKinds
    THEN control.directions /\ ~is_static(control, cs)
    ELSE IF control.kind = "Matches"
    THEN ~is_static(control, cs)
    ELSE ~is_static(control, cs) \/ ~is_original_internals(control, cs)

\* Cameras.predicted without params (optimize.py 970-976): some control raises
any_predicted_raises(ctrls, cs) ==
    \E k \in DOMAIN ctrls : predicted_raises(ctrls[k], cs)

\* Scenes: the cameras, controls and selections the adjuster is built over,
\* and the warm-start selections fit may be called with.
VD(S) == Dict({"viewdir"}, SelIdx(S))
XYZ0 == Dict({"xyz"}, SelIdx({0}))
F0 == Dict({"f"}, SelIdx({0}))

Scenes ==
    { [vec |-> <<DefaultVector>>,
       cam_params |-> <<VD({0, 1})>>,
       group_params |-> EmptyParams,
       controls |-> <<NewPoints("Points", 1, FALSE, 2, <<DefaultVector>>)>>,
       stage_cam |-> { <<VD({0})>>, <<XYZ0>> },
       stage_group |-> { EmptyParams }],
      [vec |-> <<DefaultVector, DefaultVector>>,
       cam_params |-> <<VD({0, 1}), VD({1})>>,
       group_params |-> VD({0}),
       controls |-> <<NewMatches("Matches", 1, 2, 1, <<DefaultVector, DefaultVector>>)>>,
       stage_cam |-> { <<VD({0}), VD({0})>>, <<XYZ0, EmptyParams>> },
       stage_group |-> { VD({1}) }],
      [vec |-> <<DefaultVector, DefaultVector>>,
       cam_params |-> <<VD({0}), VD({0})>>,
       group_params |-> F0,
       controls |-> <<NewPoints("Lines", 1, TRUE, 1, <<DefaultVector, DefaultVector>>),
                      NewMatches("RotationMatches", 1, 2, 1, <<DefaultVector, DefaultVector>>)>>,
       stage_cam |-> { <<VD({1}), VD({1})>>, <<XYZ0, EmptyParams>> },
       stage_group |-> { EmptyParams }] }

\* The scene a state was built from (its warm-start choices)
SceneOf(cprm, gprm) ==
    CHOOSE sc \in Scenes : sc.cam_params = cprm /\ sc.group_params = gprm

CamIdSeq(cs) == [i \in DOMAIN cs |-> i]
NoFit == [n |-> 0, iterations |-> 0, cam_params |-> <<>>, group_params |-> <<>>,
          prefit |-> <<>>, starts |-> <<>>, outcomes |-> <<>>]

\* Cameras.__init__ (optimize.py 817-854) on a scene
Init ==
    /\ \E sc \in Scenes :
         /\ test_cameras(CamIdSeq(sc.vec), sc.vec,
                         prune_controls(CamIdSeq(sc.vec), sc.controls),
                         sc.cam_params, sc.group_params) = "ok"
         /\ cams = sc.vec
         /\ vectors = sc.vec
         /\ controls = prune_controls(CamIdSeq(sc.vec), sc.controls)
         /\ cam_params = sc.cam_params
         /\ group_params = sc.group_params
         /\ params = build_lmfit_params(sc.vec, sc.cam_params, sc.group_params)
    /\ pc = "idle"
    /\ last = [op |-> "init", raised |-> FALSE, only_set |-> TRUE]
    /\ ret = [kind |-> "none"]
    /\ fitst = NoFit
    /\ nops = 0
    /\ build = NoBuild
    /\ rs = NoRansac

\* Cameras.set_cameras (optimize.py 868-880)
set_cameras(cs, values) == apply_params(cs, cam_params, group_params, values)

\* self.vectors holds copies (optimize.py 820), not the arrays set_cameras
\* writes into: the saved vectors after the cameras were moved
vectors_after_set_aliased(saved, moved) == moved
vectors_after_set(saved, moved) == saved

SetCameras(values) ==
    /\ pc = "idle"
    /\ nops < MaxOps
    /\ cams' = set_cameras(cams, values)
    /\ vectors' = vectors_after_set(vectors, cams')
    /\ last' = [op |-> "set_cameras", raised |-> FALSE, only_set |-> last.only_set,
                values |-> values, before |-> cams]
    /\ ret' = [kind |-> "none"]
    /\ nops' = nops + 1
    /\ UNCHANGED <<cam_params, group_params, params, controls, pc, fitst, build, rs>>

SetCamerasCall ==
    \E values \in ValueArrays(n_params(cam_params, group_params)) : SetCameras(values)

\* Cameras.reset_cameras (optimize.py 882-897): the vectors copied into the
\* cameras, and the saved vectors afterwards.  arg.none: vectors=None.
reset_source(saved, arg) == IF arg.none THEN saved ELSE arg.vectors
reset_saved(saved, arg, save) == IF ~arg.none /\ save THEN arg.vectors ELSE saved
reset_cameras(cs, saved, arg) ==
    [i \in DOMAIN cs |-> reset_source(saved, arg)[i]]

\* The `vectors` arguments a caller passes
ResetArgs(cs) ==
    { [none |-> TRUE, vectors |-> <<>>] }
    \cup { [none |-> FALSE, vectors |-> [i \in DOMAIN cs |-> [DefaultVector EXCEPT ![4] = v]]]
           : v \in Values }

ResetCameras(arg, save) ==
    /\ pc = "idle"
    /\ nops < MaxOps
    /\ cams' = reset_cameras(cams, vectors, arg)
    /\ vectors' = reset_saved(vectors, arg, save)
    /\ last' = [op |-> "reset_cameras", raised |-> FALSE, only_set |-> FALSE,
                default |-> arg.none, save |-> save, before |-> cams]
    /\ ret' = [kind |-> "none"]
    /\ nops' = nops + 1
    /\ UNCHANGED <<cam_params, group_params, params, controls, pc, fitst, build, rs>>

ResetCamerasCall == \E arg \in ResetArgs(cams), save \in BOOLEAN : ResetCameras(arg, save)

\* Cameras.update_params (optimize.py 899-903)
update_params(cs, old) == build_lmfit_params(cs, cam_params, group_params)

UpdateParams ==
    /\ pc = "idle"
    /\ nops < MaxOps
    /\ params' = update_params(cams, params)
    /\ last' = [op |-> "update_params", raised |-> FALSE, only_set |-> FALSE]
    /\ ret' = [kind |-> "none"]
    /\ nops' = nops + 1
    /\ UNCHANGED <<cams, vectors, cam_params, group_params, controls, pc, fitst, build, rs>>

\* Cameras.predicted(params) (optimize.py 957-979): the camera vectors it
\* leaves.  arg.none: params=None.
predicted_cameras_to_saved(cs, ctrls, arg) ==
    IF arg.none THEN cs
    ELSE LET moved == set_cameras(cs, arg.values)
         IN  IF any_predicted_raises(ctrls, moved)
             THEN moved
             ELSE reset_cameras(moved, vectors, [none |-> TRUE, vectors |-> <<>>])

predicted_cameras(cs, ctrls, arg) ==
    IF arg.none THEN cs
    ELSE LET saved == cs
             moved == set_cameras(cs, arg.values)
         IN  IF any_predicted_raises(ctrls, moved)
             THEN moved
             ELSE reset_cameras(moved, vectors, [none |-> FALSE, vectors |-> saved])

predicted_outcome(cs, ctrls, arg) ==
    IF arg.none THEN any_predicted_raises(ctrls, cs)
    ELSE any_predicted_raises(ctrls, set_cameras(cs, arg.values))

PredictedArgs ==
    { [none |-> TRUE, values |-> <<>>] }
    \cup { [none |-> FALSE, values |-> v] : v \in ValueArrays(n_params(cam_params, group_params)) }

Predicted(arg) ==
    /\ pc = "idle"
    /\ nops < MaxOps
    /\ cams' = predicted_cameras(cams, controls, arg)
    /\ last' = [op |-> "predicted", raised |-> predicted_outcome(cams, controls, arg),
                only_set |-> FALSE, before |-> cams, with_params |-> ~arg.none]
    /\ ret' = [kind |-> IF predicted_outcome(cams, controls, arg) THEN "ValueError" ELSE "array"]
    /\ nops' = nops + 1
    /\ UNCHANGED <<vectors, cam_params, group_params, params, controls, pc, fitst, build, rs>>

PredictedCall == \E arg \in PredictedArgs : Predicted(arg)

Next == SetCamerasCall \/ ResetCamerasCall \/ UpdateParams \/ PredictedCall

Spec == Init /\ [][Next]_vars

\* ---- C27 ---------------------------------------------------------------
\* C27: if a control's predicted() raises while Cameras.predicted(params=p)
\* is evaluating, the camera vectors are restored to their values before the
\* call before the error reaches the caller.
C27_RaisingPredictedRestores ==
    last.op = "predicted" /\ last.with_params /\ last.raised => cams = last.before

\* ---- C28 ---------------------------------------------------------------
\* C28: whenever Cameras.predicted(params=p) returns normally every camera's
\* vector equals its value immediately before the call, whatever the saved
\* Cameras.vectors are; with params=None the cameras are not written.
C28_PredictedKeepsCameras ==
    last.op = "predicted" /\ (~last.raised \/ ~last.with_params) => cams = last.before

\* predicted(params=p) returned on cameras that differ from the saved vectors
C28_Witness ==
    /\ last.op = "predicted" /\ last.with_params /\ ~last.raised
    /\ cams = last.before
    /\ cams # vectors
    /\ \E v \in ValueArrays(n_params(cam_params, group_params)) :
          set_cameras(last.before, v) # last.before

\* ---- C29 ---------------------------------------------------------------
\* C29: after any set_cameras call all cameras hold identical values in every
\* group-masked slot, and a slot selected both by the group mask and by a
\* camera's own mask holds the group value.
C29_GroupSlotsShared ==
    last.op = "set_cameras" =>
        LET gmask == parse_params_mask(group_params)
        IN  /\ \A i, j \in DOMAIN cams : \A s \in gmask : cams[i][s] = cams[j][s]
            /\ \A i \in DOMAIN cams :
                 \A s \in gmask \cap parse_params_mask(cam_params[i]) :
                    cams[i][s] = last.values[Cardinality({ t \in gmask : t < s }) + 1]

\* set_cameras on two cameras where camera 0's mask and the group mask share
\* a slot and the two blocks carry different values for it
C29_Witness ==
    /\ last.op = "set_cameras"
    /\ Len(cams) = 2
    /\ \E s \in parse_params_mask(group_params) \cap parse_params_mask(cam_params[1]) :
          LET g == last.values[Cardinality({ t \in parse_params_mask(group_params) : t < s }) + 1]
              own == last.values[Cardinality(parse_params_mask(group_params))
                         + Cardinality({ t \in parse_params_mask(cam_params[1]) : t < s }) + 1]
          IN  g # own /\ cams[1][s] = g /\ cams[2][s] = g /\ last.before[2][s] # g

\* ---- C8 ----------------------------------------------------------------
\* C8: set_cameras never touches the saved vectors: while set_cameras is the
\* only call made so far, Cameras.vectors still equals the camera vectors at
\* construction, and after reset_cameras() every camera's vector equals its
\* saved vector.
C8_SetKeepsSavedVectors ==
    /\ (last.only_set => vectors = SceneOf(cam_params, group_params).vec)
    /\ (last.op = "reset_cameras" /\ last.default => cams = vectors)

\* Cameras moved by set_cameras with the saved vectors left behind
C8_Witness ==
    /\ last.op = "set_cameras"
    /\ cams # last.before
    /\ cams # vectors

\* ---- C9 ----------------------------------------------------------------
\* Rank of slot s in a mask read in ascending position, and the offset of
\* camera i's block in the flat value array
RankIn(mask, s) == Cardinality({ t \in mask : t < s }) + 1
BlockOffset(i) ==
    Cardinality(parse_params_mask(group_params))
    + SumSeq([j \in 1 .. (i - 1) |-> Cardinality(parse_params_mask(cam_params[j]))])

\* params lists the group parameters, then camera 0's, then camera 1's ...,
\* each block in ascending slot position
ParamsInLayoutOrder ==
    /\ Len(params) = BlockOffset(Len(cam_params) + 1)
    /\ \A s \in parse_params_mask(group_params) :
         LET e == params[RankIn(parse_params_mask(group_params), s)]
         IN  e.cam = -1 /\ e.slot = s
    /\ \A i \in DOMAIN cam_params : \A s \in parse_params_mask(cam_params[i]) :
         LET e == params[BlockOffset(i) + RankIn(parse_params_mask(cam_params[i]), s)]
         IN  e.cam = i - 1 /\ e.slot = s

\* What set_cameras(values) left in the cameras; a camera's own value for a
\* slot the group mask also selects is required only when strict
ValuesInLayoutOrder(strict) ==
    \A i \in DOMAIN cams : \A s \in Slots :
        LET gmask == parse_params_mask(group_params)
            cmask == parse_params_mask(cam_params[i])
        IN  /\ s \in gmask => cams[i][s] = last.values[RankIn(gmask, s)]
            /\ s \in cmask /\ (strict \/ s \notin gmask)
                 => cams[i][s] = last.values[BlockOffset(i) + RankIn(cmask, s)]
            /\ s \notin gmask \cup cmask => cams[i][s] = last.before[i][s]

\* C9 (as stated): set_cameras(values) writes the leading group block to the
\* group-masked slots of every camera, the next block to camera 0's masked
\* slots, the next to camera 1's, each in ascending slot position, leaves
\* every unmasked slot unchanged, and params has the same order.
C9_SetCamerasLayout ==
    /\ ParamsInLayoutOrder
    /\ last.op = "set_cameras" => ValuesInLayoutOrder(TRUE)

\* C9 (amended): the same, with a camera's block landing on the slots of its
\* mask that the group mask does not also select; a slot both masks select
\* ends with the group value.
C9_SetCamerasLayoutAmended ==
    /\ ParamsInLayoutOrder
    /\ last.op = "set_cameras" => ValuesInLayoutOrder(FALSE)

\* set_cameras wrote distinct group and camera values into two cameras
C9_Witness ==
    /\ last.op = "set_cameras"
    /\ Len(cams) = 2
    /\ parse_params_mask(group_params) # {}
    /\ \E s \in parse_params_mask(cam_params[2]) \ parse_params_mask(group_params) :
         /\ cams[2][s] # last.before[2][s]
         /\ cams[2][s] # last.values[1]

----------------------------------------------------------------------------
\* Cameras.fit (optimize.py 1011-1087) as a process: the warm-start stages,
\* update_params, the final solve.

\* What lmfit.minimize can do with n variables: evaluate the residuals at the
\* initial values and at trial values (each evaluation is
\* Cameras.predicted(params), which raises when a control does), then stop
\* with success or not and its last values.
SolverArrays(n) ==
    { [j \in 1 .. n |-> v] : v \in Values } \cup { [j \in 1 .. n |-> j % 2] }

InitialValues(prm) == [j \in DOMAIN prm |-> prm[j].value]

SolverOutcomes(cs, ctrls, cprm, gprm, prm) ==
    LET raises(x) == any_predicted_raises(ctrls, apply_params(cs, cprm, gprm, x))
        trials == SolverArrays(n_params(cprm, gprm)) \cup {InitialValues(prm)}
    IN  { [raised |-> TRUE, success |-> FALSE, values |-> x] :
            x \in { y \in trials : raises(y) } }
        \cup (IF raises(InitialValues(prm)) THEN {}
              ELSE { [raised |-> FALSE, success |-> ok, values |-> x] :
                       ok \in BOOLEAN, x \in { y \in trials : ~raises(y) } })

\* iterations = max(len(cam_params) if cam_params else 0, ...) (1063-1065)
fit_iterations(cp, gp) == Max({Len(cp), Len(gp)})

\* Sequences of 1 .. MaxStages selections
StageSeqs(S) == UNION { [1 .. n -> S] : n \in 1 .. MaxStages }

\* The cam_params / group_params lists fit is called with: each None (<<>>)
\* or a list, of the same length when both are given
FitArgs(sc) ==
    { a \in [cam_params : {<<>>} \cup StageSeqs(sc.stage_cam),
             group_params : {<<>>} \cup StageSeqs(sc.stage_group),
             full : BOOLEAN] :
        a.cam_params = <<>> \/ a.group_params = <<>>
        \/ Len(a.cam_params) = Len(a.group_params) }

FitBegin(a) ==
    /\ pc = "idle"
    /\ last.op # "fit"
    /\ fitst' = [n |-> 0, iterations |-> fit_iterations(a.cam_params, a.group_params),
                 cam_params |-> a.cam_params, group_params |-> a.group_params,
                 full |-> a.full, prefit |-> cams, starts |-> <<>>, outcomes |-> <<>>]
    /\ pc' = IF fit_iterations(a.cam_params, a.group_params) > 0 THEN "stage" ELSE "solve"
    /\ UNCHANGED <<cams, vectors, cam_params, group_params, params, controls,
                   last, ret, nops, build, rs>>

FitBeginCall == \E a \in FitArgs(SceneOf(cam_params, group_params)) : FitBegin(a)

\* The selections of stage n (1068-1069), n counted from 1
iter_cam_params(st, n) == IF st.cam_params # <<>> THEN st.cam_params[n] ELSE cam_params
iter_group_params(st, n) == IF st.group_params # <<>> THEN st.group_params[n] ELSE group_params

\* values = model.fit(...); if values is not None: model.set_cameras(values)
\* (1072-1074)
stage_cameras_always(cs, icp, igp, outcome) == apply_params(cs, icp, igp, outcome.values)
stage_cameras(cs, icp, igp, outcome) ==
    IF outcome.success THEN apply_params(cs, icp, igp, outcome.values) ELSE cs

FitRaised(moved) ==
    /\ cams' = moved
    /\ pc' = "idle"
    /\ last' = [op |-> "fit", raised |-> TRUE, success |-> FALSE]
    /\ ret' = [kind |-> "ValueError"]
    /\ UNCHANGED <<vectors, cam_params, group_params, params, controls, fitst, nops, build, rs>>

\* One pass of the warm-start loop (1067-1074)
FitStage ==
    /\ pc = "stage"
    /\ fitst.n < fitst.iterations
    /\ LET icp == iter_cam_params(fitst, fitst.n + 1)
           igp == iter_group_params(fitst, fitst.n + 1)
           mcontrols == prune_controls(CamIdSeq(cams), controls)
       IN  IF test_cameras(CamIdSeq(cams), cams, mcontrols, icp, igp) # "ok"
           THEN FitRaised(cams)
           ELSE \E o \in SolverOutcomes(cams, mcontrols, icp, igp,
                                        build_lmfit_params(cams, icp, igp)) :
                  IF o.raised
                  THEN FitRaised(apply_params(cams, icp, igp, o.values))
                  ELSE /\ cams' = stage_cameras(cams, icp, igp, o)
                       /\ fitst' = [fitst EXCEPT
                              !.n = @ + 1,
                              !.starts = Append(@, cams),
                              !.outcomes = Append(@,
                                  [success |-> o.success, values |-> o.values,
                                   cam_params |-> icp, group_params |-> igp,
                                   controls |-> mcontrols])]
                       /\ UNCHANGED <<vectors, cam_params, group_params, params, controls,
                                      pc, last, ret, nops, build, rs>>

\* self.update_params() after the loop (1074)
FitUpdate ==
    /\ pc = "stage"
    /\ fitst.n = fitst.iterations
    /\ params' = update_params(cams, params)
    /\ pc' = "solve"
    /\ UNCHANGED <<cams, vectors, cam_params, group_params, controls, last, ret,
                   fitst, nops, build, rs>>

\* if iterations: self.reset_cameras() (1079-1081)
fit_exit_cameras(cs, saved, iterations) ==
    IF iterations > 0 THEN reset_cameras(cs, saved, [none |-> TRUE, vectors |-> <<>>]) ELSE cs

\* The return value (1084-1087)
fit_return_always(full, o) == [kind |-> "array", values |-> o.values]
fit_return(full, o) ==
    IF full THEN [kind |-> "MinimizerResult", values |-> o.values]
    ELSE IF o.success THEN [kind |-> "array", values |-> o.values]
    ELSE [kind |-> "None"]

\* The final solve and the exit of fit (1076-1087)
FitSolve ==
    /\ pc = "solve"
    /\ \E o \in SolverOutcomes(cams, controls, cam_params, group_params, params) :
         IF o.raised
         THEN FitRaised(apply_params(cams, cam_params, group_params, o.values))
         ELSE /\ cams' = fit_exit_cameras(cams, vectors, fitst.iterations)
              /\ params' = IF fitst.iterations > 0 THEN update_params(cams', params) ELSE params
              /\ ret' = fit_return(fitst.full, o)
              /\ last' = [op |-> "fit", raised |-> FALSE, success |-> o.success,
                          values |-> o.values, before |-> cams]
              /\ pc' = "idle"
              /\ UNCHANGED <<vectors, cam_params, group_params, controls, fitst,
                             nops, build, rs>>

\* The cameras may have been moved before fit is called
FitPrelude ==
    /\ last.op = "init"
    /\ \E values \in SolverArrays(n_params(cam_params, group_params)) : SetCameras(values)

NextFit == FitPrelude \/ FitBeginCall \/ FitStage \/ FitUpdate \/ FitSolve

SpecFit == Init /\ [][NextFit]_vars

\* ---- C1 ----------------------------------------------------------------
\* C1: when fit returns after a final solve that did not succeed, every
\* camera's vector equals the vector it had when fit was called, without
\* and with warm-start stages.
C1_FailedFitRestoresPrefit ==
    last.op = "fit" /\ ~last.raised /\ ~last.success => cams = fitst.prefit

\* ---- C6 ----------------------------------------------------------------
\* C6: with full=False, fit returns the value array exactly when the solve
\* succeeded, and otherwise returns None without raising.
C6_ArrayIffSuccess ==
    last.op = "fit" /\ ~last.raised /\ ~fitst.full =>
        IF last.success
        THEN ret = [kind |-> "array", values |-> last.values]
        ELSE ret = [kind |-> "None"]

\* fit(full=False) came back from a failed solve
C6_Witness ==
    /\ last.op = "fit" /\ ~last.raised /\ ~fitst.full
    /\ ~last.success
    /\ ret.kind = "None"

\* ---- C7 ----------------------------------------------------------------
\* The cameras stage j leaves, from the cameras it started with
StageResult(j) ==
    LET o == fitst.outcomes[j]
    IN  IF o.success
        THEN apply_params(fitst.starts[j], o.cam_params, o.group_params, o.values)
        ELSE fitst.starts[j]

\* C7: the warm-start stages run in list order, stage j on a fresh Cameras
\* over the same cameras and controls with the j-th selections, starting
\* from the vectors stage j-1 left; a stage's values are applied only when
\* its solve succeeded; after the last stage update_params is called, so
\* the final solve starts from the warm-started vectors.
C7_WarmStartStages ==
    pc \in {"stage", "solve"} /\ fitst.iterations > 0 =>
        /\ Len(fitst.outcomes) = fitst.n /\ Len(fitst.starts) = fitst.n
        /\ \A j \in 1 .. fitst.n :
             /\ fitst.outcomes[j].cam_params =
                  (IF fitst.cam_params # <<>> THEN fitst.cam_params[j] ELSE cam_params)
             /\ fitst.outcomes[j].group_params =
                  (IF fitst.group_params # <<>> THEN fitst.group_params[j] ELSE group_params)
             /\ fitst.outcomes[j].controls = controls
             /\ fitst.starts[j] = (IF j = 1 THEN fitst.prefit ELSE StageResult(j - 1))
        /\ cams = (IF fitst.n = 0 THEN fitst.prefit ELSE StageResult(fitst.n))
        /\ pc = "solve" =>
             /\ fitst.n = fitst.iterations
             /\ params = build_lmfit_params(cams, cam_params, group_params)
             /\ InitialValues(params) =
                  [j \in DOMAIN params |->
                      IF params[j].cam = -1 THEN cams[1][params[j].slot]
                      ELSE cams[params[j].cam + 1][params[j].slot]]

\* Two stages ran, the first failed and left the cameras alone, the second
\* succeeded and moved them, and the final solve is about to start
C7_Witness ==
    /\ pc = "solve" /\ fitst.n = 2
    /\ ~fitst.outcomes[1].success /\ fitst.starts[2] = fitst.prefit
    /\ fitst.outcomes[2].success /\ cams # fitst.starts[2]
    /\ fitst.outcomes[1].cam_params # fitst.outcomes[2].cam_params

----------------------------------------------------------------------------
\* A control over cameras that are moved after it was built: the caller
\* writes camera slots (cam.xyz[0] = ..., cam.f = ..., views of Camera.vector,
\* image.py 75-131) and asks the control for predicted().

\* The camera vectors the control is built over
ControlVecs ==
    { <<DefaultVector, DefaultVector>>,
      <<[DefaultVector EXCEPT ![0] = 1], DefaultVector>> }

ControlsUnderTest(vec) ==
    { NewPoints(kind, 1, d, 1, vec) : kind \in PointKinds, d \in BOOLEAN }
    \cup { NewMatches(kind, 1, 2, 1, vec) :
             kind \in { k \in MatchesKinds : MatchesConstructible(k, 1, 2, vec) } }

InitControls ==
    /\ \E vec \in ControlVecs : \E c \in ControlsUnderTest(vec) :
         /\ cams = vec
         /\ vectors = vec
         /\ controls = <<c>>
    /\ cam_params = <<>>
    /\ group_params = EmptyParams
    /\ params = <<>>
    /\ pc = "controls"
    /\ last = [op |-> "init", raised |-> FALSE]
    /\ ret = [kind |-> "none"]
    /\ fitst = [n |-> 0]
    /\ nops = 0
    /\ build = NoBuild
    /\ rs = NoRansac

\* cam.vector[s] = v
MoveCamera(i, s, v) ==
    /\ pc = "controls"
    /\ nops < MaxMoves
    /\ cams[i][s] # v
    /\ cams' = [cams EXCEPT ![i][s] = v]
    /\ nops' = nops + 1
    /\ last' = [op |-> "move", raised |-> FALSE]
    /\ UNCHANGED <<vectors, cam_params, group_params, params, controls, pc, ret,
                   fitst, build, rs>>

MoveCameraCall == \E i \in DOMAIN cams, s \in Slots, v \in Values : MoveCamera(i, s, v)

\* control.predicted(cam=cam): the position and internals tests come before
\* cam is looked at (optimize.py 70-71, 387-388, 538-541, 624-627, 685-688)
control_predicted(control, cs, cam) ==
    IF predicted_raises(control, cs) THEN "ValueError" ELSE "array"

ControlPredicted(cam) ==
    /\ pc = "controls"
    /\ cam \in 0 .. (Len(controls[1].cams) - 1)
    /\ last' = [op |-> "predicted", cam |-> cam,
                raised |-> control_predicted(controls[1], cams, cam) = "ValueError"]
    /\ ret' = [kind |-> control_predicted(controls[1], cams, cam)]
    /\ UNCHANGED <<cams, vectors, cam_params, group_params, params, controls, pc,
                   fitst, nops, build, rs>>

ControlPredictedCall == \E cam \in {0, 1} : ControlPredicted(cam)

\* Lines.project (optimize.py 187-198)
lines_project(control, cs) ==
    IF control.directions /\ ~is_static(control, cs) THEN "ValueError" ELSE "list"

LinesProject ==
    /\ pc = "controls"
    /\ controls[1].kind = "Lines"
    /\ last' = [op |-> "project", cam |-> 0,
                raised |-> lines_project(controls[1], cams) = "ValueError"]
    /\ ret' = [kind |-> lines_project(controls[1], cams)]
    /\ UNCHANGED <<cams, vectors, cam_params, group_params, params, controls, pc,
                   fitst, nops, build, rs>>

NextControls == MoveCameraCall \/ ControlPredictedCall \/ LinesProject

SpecControls == InitControls /\ [][NextControls]_vars

C5_InternalsChangedRaises ==
    pc = "controls" /\ last.op = "predicted" /\ controls[1].kind \in RotationKinds
    /\ (\E i \in 1 .. 2 : \E s \in 6 .. 19 : cams[i][s] # vectors[1][s])
    => last.raised

\* predicted(cam=0) raised although only the second camera's internals moved
C5_Witness ==
    /\ pc = "controls" /\ last.op = "predicted" /\ last.cam = 0
    /\ controls[1].kind = "RotationMatchesXYZ"
    /\ internals_of(cams[1]) = internals_of(vectors[1])
    /\ cam_xyz_of(cams[1]) = cam_xyz_of(cams[2])
    /\ cams[2][19] # vectors[2][19]
    /\ last.raised

\* ---- C16 ---------------------------------------------------------------
\* C16: Matches.predicted raises ValueError exactly when the xyz of its two
\* cameras differ at the time of the call, for cam=0 and cam=1; with equal
\* positions it does not raise, also after both cameras were moved.
C16_MatchesRaiseIffApart ==
    pc = "controls" /\ last.op = "predicted" /\ controls[1].kind = "Matches" =>
        (last.raised <=> \E s \in 0 .. 2 : cams[1][s] # cams[2][s])

\* Both cameras were moved to the same new position and predicted(cam=1)
\* answered
C16_Witness ==
    /\ pc = "controls" /\ last.op = "predicted" /\ last.cam = 1
    /\ controls[1].kind = "Matches"
    /\ nops = 2
    /\ cams[1][1] # vectors[1][1] /\ cams[2][1] # vectors[2][1]
    /\ ~last.raised

----------------------------------------------------------------------------
\* Cameras.fit: the solver keyword arguments (optimize.py 1043-1058,
\* 1076-1077).  kwargs maps each keyword to "absent" or to "caller" (a value
\* the caller gave); scales and sparsity are the object's self.scales and
\* self.sparsity, "None" when the object was built without them.

SolverKeys == {"diag", "x_scale", "jac_sparsity"}
FitMethods == {"leastsq", "least_squares", "nelder"}

\* Attribute names of a dict object: what hasattr(kwargs, name) looks at
DictAttributes ==
    {"clear", "copy", "fromkeys", "get", "items", "keys", "pop", "popitem",
     "setdefault", "update", "values"}
hasattr(kwargs, name) == name \in DictAttributes

\* The kwargs handed to lmfit.minimize
solver_kwargs(method, scales, sparsity, index, kwargs) ==
    [k \in SolverKeys |->
        IF k = "diag" /\ method = "leastsq"
           /\ scales # "None" /\ ~hasattr(kwargs, "diag")
        THEN scales
        ELSE IF k = "x_scale" /\ method = "least_squares"
                /\ scales # "None" /\ ~hasattr(kwargs, "x_scale")
        THEN scales
        ELSE IF k = "jac_sparsity" /\ method = "least_squares"
                /\ sparsity # "None" /\ ~hasattr(kwargs, "jac_sparsity")
        THEN (IF index = "None" THEN sparsity ELSE "self.sparsity[jac_index]")
        ELSE kwargs[k]]

InitKwargs ==
    /\ \E method \in FitMethods, scales \in {"None", "self.scales"},
          sparsity \in {"None", "self.sparsity"}, index \in {"None", "slice", "array"},
          kwargs \in [SolverKeys -> {"absent", "caller"}] :
         fitst = [n |-> 0, method |-> method, scales |-> scales, sparsity |-> sparsity,
                  index |-> index, kwargs |-> kwargs, solver |-> kwargs]
    /\ cams = <<>>
    /\ vectors = <<>>
    /\ cam_params = <<>>
    /\ group_params = EmptyParams
    /\ params = <<>>
    /\ controls = <<>>
    /\ pc = "kwargs"
    /\ last = [op |-> "none"]
    /\ ret = [kind |-> "none"]
    /\ nops = 0
    /\ build = NoBuild
    /\ rs = NoRansac

FitKwargs ==
    /\ pc = "kwargs"
    /\ fitst' = [fitst EXCEPT !.solver =
                    solver_kwargs(fitst.method, fitst.scales, fitst.sparsity,
                                  fitst.index, fitst.kwargs)]
    /\ pc' = "minimize"
    /\ UNCHANGED <<cams, vectors, cam_params, group_params, params, controls,
                   last, ret, nops, build, rs>>

NextKwargs == FitKwargs

SpecKwargs == InitKwargs /\ [][NextKwargs]_vars

\* ---- C17 ---------------------------------------------------------------
\* C17: fit hands self.scales to the solver as x_scale (least_squares) or
\* diag (leastsq), and self.sparsity as jac_sparsity, only when the caller
\* gave no such keyword; a value the caller gave reaches the solver
\* unchanged.
C17_CallerKwargsKept ==
    pc = "minimize" =>
        \A k \in SolverKeys :
            fitst.kwargs[k] = "caller" => fitst.solver[k] = "caller"

----------------------------------------------------------------------------
\* Camera.resize (image.py 395-422).  Here a camera is the record of its
\* imgsz, f and c (slots 6..11 of Camera.vector); `vectors` holds
\* Camera.original_vector.  imgsz holds whole numbers; f, c and scalar scale
\* factors are exact fractions <<numerator, denominator>>.

RECURSIVE GCD(_, _)
GCD(a, b) == IF b = 0 THEN a ELSE GCD(b, a % b)
Abs(x) == IF x < 0 THEN -x ELSE x

\* The fraction n/d in lowest terms, d > 0
Frac(n, d) ==
    LET g == GCD(Abs(n), Abs(d))
        sg == IF d < 0 THEN -1 ELSE 1
    IN  << sg * (n \div g), sg * (d \div g) >>
FracMul(a, b) == Frac(a[1] * b[1], a[2] * b[2])
FracLess(a, b) == a[1] * b[2] < b[1] * a[2]

\* np.floor(scale * size + 0.5), componentwise
\* np.floor(scale * size) without the + 0.5: a resize that truncates
floor_truncating(scale, size) ==
    [i \in 1 .. 2 |-> (scale[1] * size[i]) \div scale[2]]

floor_half_up(scale, size) ==
    [i \in 1 .. 2 |-> (2 * scale[1] * size[i] + scale[2]) \div (2 * scale[2])]

\* The scale factors s with floor(s * old + 0.5) = new in component i are
\* those with lo(i) <= s < hi(i)
ScaleLo(old, new, i) == Frac(2 * new[i] - 1, 2 * old[i])
ScaleHi(old, new, i) == Frac(2 * new[i] + 1, 2 * old[i])
ScaleLoMax(old, new) ==
    IF FracLess(ScaleLo(old, new, 1), ScaleLo(old, new, 2))
    THEN ScaleLo(old, new, 2) ELSE ScaleLo(old, new, 1)
ScaleExists(old, new) ==
    \A i \in 1 .. 2 : FracLess(ScaleLoMax(old, new), ScaleHi(old, new, i))

\* Camera.get_scale_from_size (image.py 273-297): the values it can return.
\* With unequal ratios the result is whatever point scipy's minimizer stops
\* at, accepted only if it reproduces new_size exactly: a scale factor that
\* does (one stands for all), or None.
get_scale_from_size(old_size, new_size) ==
    IF new_size = old_size THEN { [none |-> FALSE, scale |-> <<1, 1>>] }
    ELSE IF new_size[1] * old_size[2] = new_size[2] * old_size[1]
    THEN { [none |-> FALSE, scale |-> Frac(new_size[1], old_size[1])] }
    ELSE { [none |-> TRUE, scale |-> <<0, 1>>] }
         \cup (IF ScaleExists(old_size, new_size)
               THEN { [none |-> FALSE, scale |-> ScaleLoMax(old_size, new_size)] }
               ELSE {})

\* scale2d = new_size / self.imgsz; self.imgsz = new_size; self.f *= scale2d;
\* self.c *= scale2d (image.py 419-422)
rescaled(cam, new_size) ==
    [imgsz |-> new_size,
     f |-> [i \in 1 .. 2 |-> FracMul(cam.f[i], Frac(new_size[i], cam.imgsz[i]))],
     c |-> [i \in 1 .. 2 |-> FracMul(cam.c[i], Frac(new_size[i], cam.imgsz[i]))]]

\* The size the scale factor is applied to: self.original_imgsz (image.py 418)
resize_base_current(cam, original) == cam.imgsz
resize_base(cam, original) == original.imgsz

\* Camera.resize(size, force): the outcomes.  size.scalar: a scale factor
\* size.scale, else a target size size.target.
resize_unchecked(cam, original, size, force) ==
    IF size.scalar
    THEN { [raised |-> FALSE,
            cam |-> rescaled(cam, floor_half_up(size.scale, resize_base(cam, original)))] }
    ELSE { [raised |-> FALSE, cam |-> rescaled(cam, size.target)] }

resize(cam, original, size, force) ==
    IF size.scalar
    THEN { [raised |-> FALSE,
            cam |-> rescaled(cam, floor_half_up(size.scale, resize_base(cam, original)))] }
    ELSE IF force
    THEN { [raised |-> FALSE, cam |-> rescaled(cam, size.target)] }
    ELSE { IF g.none
           THEN [raised |-> TRUE, cam |-> cam]
           ELSE [raised |-> FALSE,
                 cam |-> rescaled(cam, floor_half_up(g.scale, resize_base(cam, original)))]
           : g \in get_scale_from_size(resize_base(cam, original), size.target) }

\* Cameras as constructed (image.py 50-73): imgsz, f, c
ResizeCameras ==
    { [imgsz |-> sz, f |-> <<Frac(fx, 1), Frac(fx, 1)>>, c |-> <<Frac(cx, 1), <<0, 1>>>>] :
        sz \in { <<100, 100>>, <<4, 3>> }, fx \in {100, 3}, cx \in {0, -3} }

\* The `size` arguments of resize
ResizeSizes ==
    { [scalar |-> TRUE, scale |-> sc, target |-> <<0, 0>>] :
        sc \in { <<1, 2>>, <<1, 1>>, <<2, 1>> } }
    \cup { [scalar |-> FALSE, scale |-> <<0, 1>>, target |-> t] :
             t \in { <<50, 50>>, <<8, 6>>, <<2, 2>>, <<2, 1>> } }

NoCall == [size |-> [scalar |-> TRUE, scale |-> <<0, 1>>, target |-> <<0, 0>>],
           force |-> FALSE, raised |-> FALSE]

InitResize ==
    /\ \E cam \in ResizeCameras :
         /\ cams = <<cam>>
         /\ vectors = <<cam>>
         /\ last = [op |-> "init", call |-> NoCall, before |-> cam,
                    prev |-> NoCall, prev_before |-> cam]
    /\ cam_params = <<>>
    /\ group_params = EmptyParams
    /\ params = <<>>
    /\ controls = <<>>
    /\ pc = "camera"
    /\ ret = [kind |-> "none"]
    /\ fitst = [n |-> 0]
    /\ nops = 0
    /\ build = NoBuild
    /\ rs = NoRansac

Resize(size, force) ==
    /\ pc = "camera"
    /\ nops < MaxResizes
    /\ \E r \in resize(cams[1], vectors[1], size, force) :
         /\ cams' = <<r.cam>>
         /\ last' = [op |-> "resize",
                     call |-> [size |-> size, force |-> force, raised |-> r.raised],
                     before |-> cams[1],
                     prev |-> last.call, prev_before |-> last.before]
         /\ ret' = [kind |-> IF r.raised THEN "ValueError" ELSE "None"]
    /\ nops' = nops + 1
    /\ UNCHANGED <<vectors, cam_params, group_params, params, controls, pc,
                   fitst, build, rs>>

ResizeCall == \E size \in ResizeSizes, force \in BOOLEAN : Resize(size, force)

NextResize == ResizeCall

SpecResize == InitResize /\ [][NextResize]_vars

\* resize(s) with the scale factor s was the last call / the call before it
LastScalar(s) == last.op = "resize" /\ last.call.size.scalar /\ last.call.size.scale = s
PrevScalar(s) == nops >= 2 /\ last.prev.size.scalar /\ last.prev.size.scale = s

\* cam is `before` with f and c multiplied by cam.imgsz / before.imgsz
ScaledFrom(cam, before) ==
    \A i \in 1 .. 2 :
        /\ cam.f[i] = FracMul(before.f[i], Frac(cam.imgsz[i], before.imgsz[i]))
        /\ cam.c[i] = FracMul(before.c[i], Frac(cam.imgsz[i], before.imgsz[i]))

\* ---- C18 ---------------------------------------------------------------
\* C18 (as stated): resize(2.0) followed by resize(0.5) returns imgsz, f and
\* c to the values they had before the two calls.
C18_ResizeRoundTrip ==
    LastScalar(<<1, 2>>) /\ PrevScalar(<<2, 1>>) => cams[1] = last.prev_before

\* C18 (amended): resize(2.0) followed by resize(0.5) leaves imgsz at
\* floor(0.5 * original_imgsz + 0.5), and f and c at their values before the
\* two calls multiplied by that imgsz over the imgsz before the two calls.
C18_ResizeRoundTripAmended ==
    LastScalar(<<1, 2>>) /\ PrevScalar(<<2, 1>>) =>
        /\ \A i \in 1 .. 2 : cams[1].imgsz[i] = (vectors[1].imgsz[i] + 1) \div 2
        /\ ScaledFrom(cams[1], last.prev_before)

\* resize(2.0) then resize(0.5) on a camera at its original size 4 x 3
C18_Witness ==
    /\ LastScalar(<<1, 2>>) /\ PrevScalar(<<2, 1>>)
    /\ last.prev_before = vectors[1]
    /\ vectors[1].imgsz = <<4, 3>>
    /\ last.before.imgsz = <<8, 6>>
    /\ cams[1].imgsz = <<2, 2>>

\* ---- C19 ---------------------------------------------------------------
\* The last call was resize(t) with the target size t
LastTarget(t) == last.op = "resize" /\ ~last.call.size.scalar /\ last.call.size.target = t

\* C19: resize(s) with a scalar s sets imgsz to floor(s * original_imgsz + 0.5),
\* whatever the current size, and multiplies f and c by new imgsz / previous
\* imgsz; resize(s) applied twice gives the same camera as applied once; and
\* resize((50,50)) on an imgsz=(100,100), f=(100,100) camera gives
\* imgsz=(50,50), f=(50,50).
C19_ResizeRelativeToOriginal ==
    /\ \A s \in { sz.scale : sz \in { z \in ResizeSizes : z.scalar } } :
         /\ LastScalar(s) =>
              /\ ~last.call.raised
              /\ \A i \in 1 .. 2 :
                    cams[1].imgsz[i] =
                        (2 * s[1] * vectors[1].imgsz[i] + s[2]) \div (2 * s[2])
              /\ ScaledFrom(cams[1], last.before)
         /\ LastScalar(s) /\ PrevScalar(s) => cams[1] = last.before
    /\ ( /\ LastTarget(<<50, 50>>)
         /\ last.before.imgsz = <<100, 100>>
         /\ last.before.f = << <<100, 1>>, <<100, 1>> >> )
       => /\ ~last.call.raised
          /\ cams[1].imgsz = <<50, 50>>
          /\ cams[1].f = << <<50, 1>>, <<50, 1>> >>

\* resize(0.5) twice on a 4 x 3 camera: the first call rounds 1.5 up to 2
\* and rescales f, the second changes nothing
C19_Witness ==
    /\ LastScalar(<<1, 2>>) /\ PrevScalar(<<1, 2>>)
    /\ vectors[1].imgsz = <<4, 3>>
    /\ last.prev_before = vectors[1]
    /\ cams[1].imgsz = <<2, 2>>
    /\ cams[1] = last.before
    /\ cams[1].f # last.prev_before.f

\* ---- C20 ---------------------------------------------------------------
\* C20: resize with a target size that no scalar s reproduces as
\* floor(s * original_imgsz + 0.5) raises ValueError when force=False and
\* leaves imgsz, f and c unchanged; with force=True it sets imgsz to the
\* target size without raising.
C20_TargetWithoutScale ==
    \A t \in { sz.target : sz \in { z \in ResizeSizes : ~z.scalar } } :
        LastTarget(t) /\ ~ScaleExists(vectors[1].imgsz, t) =>
            IF last.call.force
            THEN ~last.call.raised /\ cams[1].imgsz = t
            ELSE last.call.raised /\ cams[1] = last.before

\* resize((50,50)) on a 4 x 3 camera raised and changed nothing, then
\* resize((50,50), force=True) set the size
C20_Witness ==
    /\ LastTarget(<<50, 50>>)
    /\ vectors[1].imgsz = <<4, 3>>
    /\ last.call.force /\ ~last.call.raised
    /\ nops >= 2
    /\ ~last.prev.size.scalar /\ last.prev.size.target = <<50, 50>>
    /\ ~last.prev.force /\ last.prev.raised
    /\ last.before = last.prev_before
    /\ cams[1].imgsz = <<50, 50>>

----------------------------------------------------------------------------
\* The parameter masks Cameras.__init__ builds (optimize.py 817-854) when
\* cam_params is a single dict or a list, with and without sparsity.

\* self.cam_params = (cam_params, ) if isinstance(cam_params, dict) else cam_params
normalize_cam_params(arg) == IF arg.single THEN <<arg.dict>> ELSE arg.list

\* [parse_params(params, ...) for params, bounds in zip(self.cam_params,
\* default_cam_bounds)]: zip stops at the shorter of the two
cam_masks(camids, cprm) ==
    [i \in 1 .. Min({Len(camids), Len(cprm)}) |-> parse_params_mask(cprm[i])]

\* build_sparsity reads cam_ends[j + 1] for every camera a control refers
\* to; cam_ends has one more entry than there are masks
sparsity_raises(camids, ctrls, masks) ==
    \E k \in DOMAIN ctrls : \E cam \in control_cams(ctrls[k]) :
        cam \in SeqRange(camids) /\ cams_index(camids, cam) > Len(masks)

\* The cam_params arguments: a single dict (the default is one) or a list
\* with one dict per camera
CamParamsArgs(n) ==
    { [single |-> TRUE, dict |-> d, list |-> <<>>] : d \in BuildCamParams }
    \cup { [single |-> FALSE, dict |-> EmptyParams, list |-> l] :
             l \in [1 .. n -> BuildCamParams] }

InitMasks ==
    /\ \E cl \in CamLists :
         \E ctrls \in ControlLists([c \in CamIds |-> DefaultVector]) :
           \E arg \in CamParamsArgs(Len(cl)), sp \in BOOLEAN :
              build = [stage |-> "args", cams |-> cl,
                       vec |-> [c \in CamIds |-> DefaultVector], controls |-> ctrls,
                       cam_params |-> arg, group_params |-> EmptyParams,
                       sparsity |-> sp, result |-> "none", cam_masks |-> <<>>]
    /\ NoCameras
    /\ rs = NoRansac

CamerasMasks ==
    /\ build.stage = "args"
    /\ LET pruned == prune_controls(build.cams, build.controls)
           cprm == normalize_cam_params(build.cam_params)
           r == test_cameras(build.cams, build.vec, pruned, cprm, build.group_params)
           masks == cam_masks(build.cams, cprm)
       IN  build' = [build EXCEPT
                        !.stage = "done",
                        !.cam_masks = IF r = "ok" THEN masks ELSE <<>>,
                        !.result =
                            IF r # "ok" THEN r
                            ELSE IF build.sparsity /\ sparsity_raises(build.cams, pruned, masks)
                            THEN "IndexError"
                            ELSE "ok"]
    /\ UNCHANGED <<camsVars, rs>>

NextMasks == CamerasMasks

SpecMasks == InitMasks /\ [][NextMasks]_vars

\* ---- C26 ---------------------------------------------------------------
\* C26: after constructing Cameras there is exactly one parameter mask per
\* camera, including when cam_params is given as a single dict.
C26_MaskPerCamera ==
    build.stage = "done" /\ build.result = "ok" =>
        Len(build.cam_masks) = Len(build.cams)

----------------------------------------------------------------------------
\* Projection between world and image coordinates (image.py 424-470,
\* 1023-1109) for a camera without distortion.  Coordinates are exact
\* rationals <<numerator, denominator>>; viewdir is counted in quarter turns
\* (multiples of 90 degrees), where the sines and cosines of Camera.R are
\* exactly -1, 0 or 1.

FracAdd(a, b) == Frac(a[1] * b[2] + b[1] * a[2], a[2] * b[2])
FracSub(a, b) == Frac(a[1] * b[2] - b[1] * a[2], a[2] * b[2])
FracInt(n) == <<n, 1>>
FracVec(v) == [i \in DOMAIN v |-> FracInt(v[i])]

\* np.cos and np.sin of np.deg2rad(viewdir), viewdir = 90 * q
CosQ(q) == <<1, 0, -1, 0>>[(q % 4) + 1]
SinQ(q) == <<0, 1, 0, -1>>[(q % 4) + 1]

\* Camera.R (image.py 154-176); the first definition leaves out the initial
\* rotation that points the camera north
R_without_initial_rotation(viewdir) ==
    LET C == [i \in 1 .. 3 |-> CosQ(viewdir[i])]
        S == [i \in 1 .. 3 |-> SinQ(viewdir[i])]
    IN  << << C[1] * C[3] + S[1] * S[2] * S[3], C[2] * S[3], C[1] * S[2] * S[3] - C[3] * S[1] >>,
           << C[3] * S[1] * S[2] - C[1] * S[3], C[2] * C[3], S[1] * S[3] + C[1] * C[3] * S[2] >>,
           << C[2] * S[1], -S[2], C[1] * C[2] >> >>

R(viewdir) ==
    LET C == [i \in 1 .. 3 |-> CosQ(viewdir[i])]
        S == [i \in 1 .. 3 |-> SinQ(viewdir[i])]
    IN  << << C[1] * C[3] + S[1] * S[2] * S[3], C[1] * S[2] * S[3] - C[3] * S[1], -(C[2] * S[3]) >>,
           << C[3] * S[1] * S[2] - C[1] * S[3], S[1] * S[3] + C[1] * C[3] * S[2], -(C[2] * C[3]) >>,
           << C[2] * S[1], C[1] * C[2], S[2] >> >>

FracScale(k, a) == Frac(k * a[1], a[2])
FracSum3(a, b, c) == FracAdd(FracAdd(a, b), c)

\* The camera coordinates xyz_c = np.dot(dxyz, self.R.T) of a world point or
\* ray direction (image.py 1038-1053)
xyz_c_of(cam, xyz, directions) ==
    LET dxyz == IF directions THEN xyz
                ELSE [j \in 1 .. 3 |-> FracSub(xyz[j], FracInt(cam.xyz[j]))]
        Rm == R(cam.viewdir)
    IN  [i \in 1 .. 3 |->
            FracSum3(FracScale(Rm[i][1], dxyz[1]), FracScale(Rm[i][2], dxyz[2]),
                     FracScale(Rm[i][3], dxyz[3]))]

NaN == [nan |-> TRUE, xy |-> <<FracInt(0), FracInt(0)>>]

\* Camera._world2camera (image.py 1023-1062): perspective division, points
\* with xyz_c[2] <= 0 set to NaN
world2camera_all_points(cam, xyz, directions) ==
    LET pc3 == xyz_c_of(cam, xyz, directions)
    IN  IF pc3[3][1] = 0 THEN NaN
        ELSE [nan |-> FALSE,
              xy |-> [i \in 1 .. 2 |-> Frac(pc3[i][1] * pc3[3][2], pc3[i][2] * pc3[3][1])]]

world2camera(cam, xyz, directions) ==
    LET pc3 == xyz_c_of(cam, xyz, directions)
    IN  IF pc3[3][1] <= 0 THEN NaN
        ELSE [nan |-> FALSE,
              xy |-> [i \in 1 .. 2 |-> Frac(pc3[i][1] * pc3[3][2], pc3[i][2] * pc3[3][1])]]

\* self.imgsz / 2 + self.c
image_center(cam) == [i \in 1 .. 2 |-> Frac(cam.imgsz[i] + 2 * cam.c[i], 2)]

\* Camera._camera2image (image.py 1089-1098); _distort returns xy unchanged
\* when k and p are all zero (image.py 824-825)
camera2image(cam, r) ==
    IF r.nan THEN [nan |-> TRUE, uv |-> r.xy]
    ELSE [nan |-> FALSE,
          uv |-> [i \in 1 .. 2 |-> FracAdd(FracScale(cam.f[i], r.xy[i]), image_center(cam)[i])]]

\* Camera.project (image.py 424-451)
project(cam, xyz, directions) == camera2image(cam, world2camera(cam, xyz, directions))

\* Camera._image2camera (image.py 1100-1109); _undistort returns xy unchanged
\* when k and p are all zero (image.py 846-847)
image2camera(cam, uv) ==
    [i \in 1 .. 2 |->
        LET d == FracSub(uv[i], image_center(cam)[i])
        IN  Frac(d[1], d[2] * cam.f[i])]

\* Camera._camera2world (image.py 1064-1087) with depth=1
camera2world_transposed(cam, xy, directions) ==
    LET Rm == R(cam.viewdir)
        ray == [j \in 1 .. 3 |->
                   FracSum3(FracScale(Rm[j][1], xy[1]), FracScale(Rm[j][2], xy[2]),
                            FracInt(Rm[j][3]))]
    IN  IF directions THEN ray
        ELSE [j \in 1 .. 3 |-> FracAdd(ray[j], FracInt(cam.xyz[j]))]

camera2world(cam, xy, directions) ==
    LET Rm == R(cam.viewdir)
        ray == [j \in 1 .. 3 |->
                   FracSum3(FracScale(Rm[1][j], xy[1]), FracScale(Rm[2][j], xy[2]),
                            FracInt(Rm[3][j]))]
    IN  IF directions THEN ray
        ELSE [j \in 1 .. 3 |-> FracAdd(ray[j], FracInt(cam.xyz[j]))]

\* Camera.invproject (image.py 453-470)
invproject(cam, uv, directions) == camera2world(cam, image2camera(cam, uv), directions)

\* Cameras without distortion, facing along or across the axes
ProjectCameras ==
    { [xyz |-> p, viewdir |-> v, imgsz |-> sz, f |-> f, c |-> c] :
        p \in { <<0, 0, 0>>, <<1, -2, 0>> },
        v \in { <<0, 0, 0>>, <<1, 0, 0>>, <<3, 0, 1>>, <<0, 1, 0>>, <<2, 3, 3>> },
        sz \in { <<100, 100>>, <<4, 3>> },
        f \in { <<100, 100>>, <<2, 3>> },
        c \in { <<0, 0>>, <<1, -1>> } }

\* Image coordinates inside, on and outside the frame of either image size
ImagePoints ==
    { <<FracInt(50), FracInt(50)>>, <<FracInt(1), FracInt(2)>>, <<<<1, 2>>, <<5, 2>>>>,
      <<FracInt(0), FracInt(0)>>, <<FracInt(-1), FracInt(120)>> }

\* World points relative to the camera position, and ray directions
Offsets ==
    { <<0, 10, 0>>, <<0, 1, 0>>, <<0, -10, 0>>, <<10, 0, 0>>, <<0, 0, 5>>,
      <<1, 10, -2>>, <<0, 0, 0>>, <<-3, 0, -1>> }

NoPoint == [some |-> FALSE, uv |-> <<FracInt(0), FracInt(0)>>]

InitProject ==
    /\ \E cam \in ProjectCameras : cams = <<cam>>
    /\ vectors = <<>>
    /\ cam_params = <<>>
    /\ group_params = EmptyParams
    /\ params = <<>>
    /\ controls = <<>>
    /\ pc = "camera"
    /\ last = [op |-> "init"]
    /\ ret = [kind |-> "none"]
    /\ fitst = [n |-> 0]
    /\ nops = 0
    /\ build = NoBuild
    /\ rs = NoRansac

Invproject(uv, directions) ==
    /\ pc = "camera"
    /\ nops < MaxProjections
    /\ last' = [op |-> "invproject", uv |-> uv, directions |-> directions]
    /\ ret' = [kind |-> "xyz", xyz |-> invproject(cams[1], uv, directions)]
    /\ nops' = nops + 1
    /\ UNCHANGED <<cams, vectors, cam_params, group_params, params, controls, pc,
                   fitst, build, rs>>

InvprojectCall == \E uv \in ImagePoints, directions \in BOOLEAN : Invproject(uv, directions)

Project(xyz, directions, from) ==
    /\ pc = "camera"
    /\ nops < MaxProjections
    /\ last' = [op |-> "project", xyz |-> xyz, directions |-> directions, from |-> from]
    /\ ret' = [kind |-> "uv"] @@ project(cams[1], xyz, directions)
    /\ nops' = nops + 1
    /\ UNCHANGED <<cams, vectors, cam_params, group_params, params, controls, pc,
                   fitst, build, rs>>

\* project called on a world point or ray direction of the caller
ProjectCall ==
    \E off \in Offsets, directions \in BOOLEAN :
        Project(IF directions THEN FracVec(off)
                ELSE FracVec([j \in 1 .. 3 |-> cams[1].xyz[j] + off[j]]),
                directions, NoPoint)

\* project called on what invproject just returned
ProjectReturned ==
    /\ last.op = "invproject"
    /\ Project(ret.xyz, last.directions, [some |-> TRUE, uv |-> last.uv])

NextProject == InvprojectCall \/ ProjectCall \/ ProjectReturned

SpecProject == InitProject /\ [][NextProject]_vars

\* uv lies strictly inside the image frame of cam
StrictlyInFrame(cam, uv) ==
    \A i \in 1 .. 2 : FracLess(FracInt(0), uv[i]) /\ FracLess(uv[i], FracInt(cam.imgsz[i]))

\* ---- C22 ---------------------------------------------------------------
\* C22: for a camera with all k and p zero, project(invproject(uv),
\* directions=True) equals uv for every uv strictly inside the image frame.
C22_ProjectInvprojectRoundTrip ==
    ( /\ last.op = "project" /\ last.from.some /\ last.directions
      /\ StrictlyInFrame(cams[1], last.from.uv) )
    => ~ret.nan /\ ret.uv = last.from.uv

\* A round trip of a point off the image centre through a camera that is
\* turned in yaw and roll and has a principal point offset
C22_Witness ==
    /\ last.op = "project" /\ last.from.some /\ last.directions
    /\ StrictlyInFrame(cams[1], last.from.uv)
    /\ last.from.uv = <<<<1, 2>>, <<5, 2>>>>
    /\ cams[1].viewdir = <<3, 0, 1>>
    /\ cams[1].c = <<1, -1>>
    /\ ret.uv = last.from.uv

\* ---- C23 ---------------------------------------------------------------
\* The component of the point (relative to the camera) or ray direction
\* along the optical axis of the camera at viewdir (0,0,0) turned by yaw
\* only: north for 0, east for 90, south for 180, west for 270 degrees
AxisComponent ==
    LET cam == cams[1]
        d == [j \in 1 .. 3 |->
                 IF last.directions THEN last.xyz[j]
                 ELSE FracSub(last.xyz[j], FracInt(cam.xyz[j]))]
    IN  CASE cam.viewdir[1] % 4 = 0 -> d[2]
          [] cam.viewdir[1] % 4 = 1 -> d[1]
          [] cam.viewdir[1] % 4 = 2 -> FracSub(FracInt(0), d[2])
          [] OTHER -> FracSub(FracInt(0), d[1])

\* C23: project returns NaN for every world point or ray direction whose
\* component along the optical axis is zero or negative, and never for that
\* reason when the component is positive.
C23_BehindCameraIsNaN ==
    last.op = "project" =>
        /\ ret.nan <=> xyz_c_of(cams[1], last.xyz, last.directions)[3][1] <= 0
        /\ cams[1].viewdir[2] % 4 = 0 => (ret.nan <=> AxisComponent[1] <= 0)

\* A point behind a camera that looks east projected to NaN
C23_Witness ==
    /\ last.op = "project" /\ ~last.directions /\ ~last.from.some
    /\ cams[1].viewdir = <<1, 0, 0>>
    /\ cams[1].xyz = <<1, -2, 0>>
    /\ last.xyz = FracVec(<<-2, -2, -1>>)
    /\ ret.nan

\* ---- C24 ---------------------------------------------------------------
\* C24: for a camera with viewdir (0,0,0) and zero distortion every world
\* point directly north of the camera position projects to imgsz/2 + c;
\* Camera(imgsz=(100,100), f=(100,100)) projects (0,10,0) to (50,50).
C24_NorthProjectsToCentre ==
    ( /\ last.op = "project" /\ ~last.directions
      /\ cams[1].viewdir = <<0, 0, 0>>
      /\ last.xyz[1] = FracInt(cams[1].xyz[1])
      /\ last.xyz[3] = FracInt(cams[1].xyz[3])
      /\ FracLess(FracInt(cams[1].xyz[2]), last.xyz[2]) )
    => /\ ~ret.nan
       /\ \A i \in 1 .. 2 :
            2 * cams[1].c[i] * ret.uv[i][2] + cams[1].imgsz[i] * ret.uv[i][2] = 2 * ret.uv[i][1]

\* Camera(imgsz=(100,100), f=(100,100)) projected (0,10,0) to (50,50)
C24_Witness ==
    /\ last.op = "project" /\ ~last.directions
    /\ cams[1] = [xyz |-> <<0, 0, 0>>, viewdir |-> <<0, 0, 0>>, imgsz |-> <<100, 100>>,
                  f |-> <<100, 100>>, c |-> <<0, 0>>]
    /\ last.xyz = FracVec(<<0, 10, 0>>)
    /\ ~ret.nan
    /\ ret.uv = <<FracInt(50), FracInt(50)>>

----------------------------------------------------------------------------
\* Camera.vector and Camera.original_vector as numpy arrays (image.py
\* 50-73, 77-131, 313-319, 385-422; optimize.py 882-897, 1842-1851).
\* `vectors` is the heap of arrays, cams[1].vector and
\* cams[1].original_vector are the arrays the two attributes refer to.  The
\* numbers written by resize are those of SpecResize; here they are
\* abstracted to Values, what matters is which array is written.

\* The slots of an attribute: Camera.xyz is vector[0:3], ...
SlotsOf(attr) == indices[AttrIndex(attr)] .. (indices[AttrIndex(attr) + 1] - 1)

\* array[slots] = v, in place
WriteInPlace(heap, ref, slots, v) ==
    [heap EXCEPT ![ref] = [s \in Slots |-> IF s \in slots THEN v ELSE heap[ref][s]]]

\* Camera.reset (image.py 313-319): self.vector = self.original_vector.copy()
reset_without_copy(heap, cam) ==
    [heap |-> heap, cam |-> [cam EXCEPT !.vector = cam.original_vector]]

reset(heap, cam) ==
    [heap |-> Append(heap, heap[cam.original_vector]),
     cam |-> [cam EXCEPT !.vector = Len(heap) + 1]]

\* Camera.__init__ (image.py 50-73): self.vector is filled (or taken from the
\* caller), then self.original_vector = self.vector.copy()
InitOriginal ==
    /\ \E v \in {DefaultVector, WideVector} :
         /\ vectors = <<v, v>>
         /\ last = [op |-> "init", constructed |-> v]
    /\ cams = <<[vector |-> 1, original_vector |-> 2]>>
    /\ cam_params = <<>>
    /\ group_params = EmptyParams
    /\ params = <<>>
    /\ controls = <<>>
    /\ pc = "camera"
    /\ ret = [kind |-> "none"]
    /\ fitst = [n |-> 0]
    /\ nops = 0
    /\ build = NoBuild
    /\ rs = NoRansac

\* The frame of every step on the camera's arrays
OriginalStep(op, heap, cam) ==
    /\ vectors' = heap
    /\ cams' = <<cam>>
    /\ last' = [op |-> op, constructed |-> last.constructed]
    /\ nops' = nops + 1
    /\ UNCHANGED <<cam_params, group_params, params, controls, pc, ret, fitst, build, rs>>

\* cam.xyz = v, cam.viewdir = v, ...: the setters write vector[a:b] (77-131)
AssignField ==
    /\ pc = "camera"
    /\ nops < MaxAssignments
    /\ \E i \in 1 .. Len(attributes), v \in Values :
         OriginalStep("assign",
             WriteInPlace(vectors, cams[1].vector, SlotsOf(attributes[i]), v), cams[1])

\* Camera.idealize (image.py 385-393): k, p and c set to zero
Idealize ==
    /\ pc = "camera"
    /\ nops < MaxAssignments
    /\ OriginalStep("idealize",
          WriteInPlace(vectors, cams[1].vector,
                       SlotsOf("k") \cup SlotsOf("p") \cup SlotsOf("c"), 0),
          cams[1])

\* Camera.resize (image.py 395-422): reads original_imgsz, assigns imgsz and
\* scales f and c in place
ResizeInPlace ==
    /\ pc = "camera"
    /\ nops < MaxAssignments
    /\ \E v \in Values, w \in Values :
         OriginalStep("resize",
             WriteInPlace(
                 WriteInPlace(vectors, cams[1].vector, SlotsOf("imgsz"), v),
                 cams[1].vector, SlotsOf("f") \cup SlotsOf("c"), w),
             cams[1])

\* Camera.reset
CameraReset ==
    /\ pc = "camera"
    /\ nops < MaxAssignments
    /\ LET r == reset(vectors, cams[1])
       IN  OriginalStep("reset", r.heap, r.cam)

\* Cameras.set_cameras: apply_params writes cam.vector[mask] in place
\* (optimize.py 1849-1851)
SetCamerasInPlace ==
    /\ pc = "camera"
    /\ nops < MaxAssignments
    /\ \E i \in 1 .. Len(attributes), v \in Values :
         OriginalStep("set_cameras",
             WriteInPlace(vectors, cams[1].vector, SlotsOf(attributes[i]), v), cams[1])

\* Cameras.reset_cameras: cam.vector = vector.copy() (optimize.py 896-897)
ResetCamerasCopy ==
    /\ pc = "camera"
    /\ nops < MaxAssignments
    /\ \E saved \in {DefaultVector, WideVector} :
         OriginalStep("reset_cameras", Append(vectors, saved),
                      [cams[1] EXCEPT !.vector = Len(vectors) + 1])

NextOriginal ==
    AssignField \/ Idealize \/ ResizeInPlace \/ CameraReset
    \/ SetCamerasInPlace \/ ResetCamerasCopy

SpecOriginal == InitOriginal /\ [][NextOriginal]_vars

\* ---- C21 ---------------------------------------------------------------
\* C21: a Camera's original_vector never changes after construction under
\* field assignments, resize, idealize, reset, Cameras.set_cameras and
\* Cameras.reset_cameras; reset() makes vector equal to original_vector; and
\* the two arrays stay distinct objects.
C21_OriginalVectorKept ==
    /\ vectors[cams[1].original_vector] = last.constructed
    /\ cams[1].vector # cams[1].original_vector
    /\ last.op = "reset" => vectors[cams[1].vector] = last.constructed

\* A camera that was reset and then written to, with original_vector still
\* as constructed
C21_Witness ==
    /\ last.op \in {"assign", "set_cameras", "resize", "idealize"}
    /\ cams[1].vector = 3
    /\ vectors[cams[1].vector] # last.constructed
    /\ vectors[cams[1].original_vector] = last.constructed

----------------------------------------------------------------------------
\* Exif.datetime (image.py 1189-1200) over the tags DateTimeOriginal and
\* SubSecTimeOriginal.  A tag is absent, None or a bytes value; a bytes value
\* is the sequence of its characters.

DigitChars == <<"0", "1", "2", "3", "4", "5", "6", "7", "8", "9">>
IsDigit(ch) == \E i \in 1 .. 10 : DigitChars[i] = ch
DigitValue(ch) == (CHOOSE i \in 1 .. 10 : DigitChars[i] = ch) - 1

RECURSIVE Pow10(_)
Pow10(n) == IF n = 0 THEN 1 ELSE 10 * Pow10(n - 1)

\* int() of a string of digits
RECURSIVE IntOf(_)
IntOf(chars) ==
    IF chars = <<>> THEN 0
    ELSE 10 * IntOf(SubSeq(chars, 1, Len(chars) - 1)) + DigitValue(chars[Len(chars)])

Absent == [kind |-> "absent", chars |-> <<>>]
NoneTag == [kind |-> "None", chars |-> <<>>]
Bytes(chars) == [kind |-> "bytes", chars |-> chars]

\* Exif.parse_tag (image.py 1226-1254): None for a missing key, the decoded
\* string for bytes, the value itself otherwise
parse_tag(tag) ==
    IF tag.kind = "absent" THEN [none |-> TRUE, str |-> <<>>]
    ELSE IF tag.kind = "bytes" THEN [none |-> FALSE, str |-> tag.chars]
    ELSE [none |-> TRUE, str |-> <<>>]

\* `not value` / `if value` for None or a string
Falsy(v) == v.none \/ v.str = <<>>

\* The %f directive of datetime.strptime: one to six digits, zero padded on
\* the right to microseconds; anything left over is a ValueError
strptime_f(str) ==
    IF Len(str) \in 1 .. 6 /\ \A i \in DOMAIN str : IsDigit(str[i])
    THEN [error |-> FALSE, microsecond |-> IntOf(str) * Pow10(6 - Len(str))]
    ELSE [error |-> TRUE, microsecond |-> 0]

\* strptime(datetime_str, '%Y:%m:%d %H:%M:%S'): the text YYYY:MM:DD HH:MM:SS
\* as its six numbers
strptime_seconds(str) ==
    [year |-> IntOf(SubSeq(str, 1, 4)), month |-> IntOf(SubSeq(str, 6, 7)),
     day |-> IntOf(SubSeq(str, 9, 10)), hour |-> IntOf(SubSeq(str, 12, 13)),
     minute |-> IntOf(SubSeq(str, 15, 16)), second |-> IntOf(SubSeq(str, 18, 19))]

\* Exif.datetime
exif_datetime(tags) ==
    LET datetime_str == parse_tag(tags.DateTimeOriginal)
        subsec_str == parse_tag(tags.SubSecTimeOriginal)
    IN  IF Falsy(datetime_str) THEN [kind |-> "None"]
        ELSE IF ~Falsy(subsec_str)
        THEN LET f == strptime_f(subsec_str.str)
             IN  IF f.error THEN [kind |-> "ValueError"]
                 ELSE [kind |-> "datetime", time |-> strptime_seconds(datetime_str.str),
                       microsecond |-> f.microsecond]
        ELSE [kind |-> "datetime", time |-> strptime_seconds(datetime_str.str),
              microsecond |-> 0]

DateTimeTexts ==
    { <<"2", "0", "1", "4", ":", "1", "0", ":", "1", "3", " ", "0", "2", ":", "0", "3", ":", "3", "6">>,
      <<"1", "9", "9", "9", ":", "1", "2", ":", "3", "1", " ", "2", "3", ":", "5", "9", ":", "5", "9">> }

SubSecTexts ==
    UNION { [1 .. n -> {"0", "2", "8"}] : n \in 0 .. MaxDigits }
    \cup { <<"2", "8", " ">> }

ExifTags ==
    { [DateTimeOriginal |-> d, SubSecTimeOriginal |-> ss] :
        d \in {Absent} \cup { Bytes(t) : t \in DateTimeTexts },
        ss \in {Absent, NoneTag} \cup { Bytes(t) : t \in SubSecTexts } }

\* Exif() with its tags set (image.py 1167-1178)
InitExif ==
    /\ \E tags \in ExifTags : last = [op |-> "tags", tags |-> tags]
    /\ cams = <<>>
    /\ vectors = <<>>
    /\ cam_params = <<>>
    /\ group_params = EmptyParams
    /\ params = <<>>
    /\ controls = <<>>
    /\ pc = "exif"
    /\ ret = [kind |-> "none"]
    /\ fitst = [n |-> 0]
    /\ nops = 0
    /\ build = NoBuild
    /\ rs = NoRansac

\* Reading exif.datetime
ExifDatetime ==
    /\ pc = "exif"
    /\ last.op = "tags"
    /\ last' = [op |-> "datetime", tags |-> last.tags]
    /\ ret' = exif_datetime(last.tags)
    /\ UNCHANGED <<cams, vectors, cam_params, group_params, params, controls, pc,
                   fitst, nops, build, rs>>

NextExif == ExifDatetime

SpecExif == InitExif /\ [][NextExif]_vars

\* ---- C25 ---------------------------------------------------------------
\* C25: Exif.datetime is None when DateTimeOriginal is absent; when
\* SubSecTimeOriginal is absent, None or empty it is DateTimeOriginal parsed
\* to whole seconds; otherwise the SubSecTimeOriginal digits are added as the
\* decimal fraction of the second.
C25_SubsecondsAdded ==
    last.op = "datetime" =>
        LET d == last.tags.DateTimeOriginal
            ss == last.tags.SubSecTimeOriginal
        IN  IF d.kind = "absent" THEN ret.kind = "None"
            ELSE IF ss.kind = "bytes" /\ \E i \in DOMAIN ss.chars : ~IsDigit(ss.chars[i])
            THEN TRUE
            ELSE /\ ret.kind = "datetime"
                 /\ ret.time.second = IntOf(SubSeq(d.chars, 18, 19))
                 /\ IF ss.kind # "bytes" \/ ss.chars = <<>>
                    THEN ret.microsecond = 0
                    ELSE LET n == Min({Len(ss.chars), 6})
                         IN  /\ ret.microsecond \div Pow10(6 - n)
                                    = IntOf(SubSeq(ss.chars, 1, n))
                             /\ ret.microsecond % Pow10(6 - n) = 0

----------------------------------------------------------------------------
\* Camera._undistort_regulafalsi (image.py 954-1000) as a process over the
\* rows of xy.  Which rows have dy == 0 in a pass is a numerical matter and is
\* a free choice here (the tolerance test of lines 979-980 only changes that
\* choice); an estimate is represented by the pass that computed it, 0 for
\* the starting value xy / 2.  fitst holds the locals of the call.

PointIds == 1 .. NumPoints
NaNRow == -1

\* Lines 968-975: x1, y1, x2, y2, uxy; mask is not yet bound
RegulaFalsiBegin ==
    /\ pc = "call"
    /\ fitst' = [fitst EXCEPT
                    !.n = 0,
                    !.x2 = [i \in PointIds |-> 0],
                    !.uxy = [i \in PointIds |-> NaNRow]]
    /\ pc' = IF fitst.iterations = 0 THEN "exit" ELSE "loop"
    /\ UNCHANGED <<cams, vectors, cam_params, group_params, params, controls,
                   last, ret, nops, build, rs>>

\* One pass of the loop (lines 976-998) in which the rows `conv` of the
\* active rows have not_converged False
RegulaFalsiPass(conv) ==
    /\ pc = "loop"
    /\ fitst.n < fitst.iterations
    /\ LET active == IF fitst.n = 0 THEN PointIds ELSE fitst.mask.rows
           rest == active \ conv
       IN  /\ conv \subseteq active
           /\ fitst' = [fitst EXCEPT
                           !.mask = [bound |-> TRUE, rows |-> rest],
                           !.uxy = [i \in PointIds |->
                                       IF i \in conv THEN fitst.x2[i] ELSE fitst.uxy[i]],
                           !.x2 = [i \in PointIds |->
                                      IF i \in rest THEN fitst.n + 1 ELSE fitst.x2[i]],
                           !.n = IF rest = {} THEN fitst.n ELSE fitst.n + 1,
                           !.writes = [i \in PointIds |->
                                          fitst.writes[i] + (IF i \in conv THEN 1 ELSE 0)],
                           !.prev = active]
           /\ pc' = IF rest = {} \/ fitst.n + 1 = fitst.iterations THEN "exit" ELSE "loop"
    /\ UNCHANGED <<cams, vectors, cam_params, group_params, params, controls,
                   last, ret, nops, build, rs>>

RegulaFalsiPassCall == \E conv \in SUBSET PointIds : RegulaFalsiPass(conv)

\* Lines 999-1000: uxy[mask] = x2; return uxy.  mask is bound by the first
\* pass only.
RegulaFalsiReturn ==
    /\ pc = "exit"
    /\ pc' = "done"
    /\ IF fitst.mask.bound
       THEN /\ fitst' = [fitst EXCEPT
                            !.uxy = [i \in PointIds |->
                                        IF i \in fitst.mask.rows THEN fitst.x2[i]
                                        ELSE fitst.uxy[i]],
                            !.writes = [i \in PointIds |->
                                           fitst.writes[i]
                                           + (IF i \in fitst.mask.rows THEN 1 ELSE 0)]]
            /\ ret' = [kind |-> "array"]
       ELSE /\ fitst' = fitst
            /\ ret' = [kind |-> "UnboundLocalError"]
    /\ UNCHANGED <<cams, vectors, cam_params, group_params, params, controls,
                   last, nops, build, rs>>

\* _undistort_regulafalsi(xy, iterations) called on NumPoints rows
InitRegulaFalsi ==
    /\ \E it \in 0 .. MaxPasses :
         fitst = [iterations |-> it, n |-> 0,
                  mask |-> [bound |-> FALSE, rows |-> {}],
                  x2 |-> [i \in PointIds |-> 0],
                  uxy |-> [i \in PointIds |-> NaNRow],
                  writes |-> [i \in PointIds |-> 0],
                  prev |-> PointIds]
    /\ cams = <<>>
    /\ vectors = <<>>
    /\ cam_params = <<>>
    /\ group_params = EmptyParams
    /\ params = <<>>
    /\ controls = <<>>
    /\ pc = "call"
    /\ last = [op |-> "none"]
    /\ ret = [kind |-> "none"]
    /\ nops = 0
    /\ build = NoBuild
    /\ rs = NoRansac

NextRegulaFalsi == RegulaFalsiBegin \/ RegulaFalsiPassCall \/ RegulaFalsiReturn

SpecRegulaFalsi == InitRegulaFalsi /\ [][NextRegulaFalsi]_vars

\* ---- C30 ---------------------------------------------------------------
\* C30: the active working set only shrinks from pass to pass; a row removed
\* as converged has its output assigned at that moment and never again; the
\* loop runs at most `iterations` passes; and on exit every row still active
\* receives its latest estimate, so each row gets exactly one output at its
\* own index.
C30_ShrinkingWorkingSet ==
    /\ fitst.mask.bound => fitst.mask.rows \subseteq fitst.prev
    /\ fitst.n <= fitst.iterations
    /\ \A i \in PointIds : fitst.writes[i] <= 1
    /\ pc \in {"loop", "exit"} /\ fitst.mask.bound =>
         \A i \in PointIds : i \notin fitst.mask.rows <=> fitst.writes[i] = 1
    /\ pc = "done" =>
         /\ ret.kind = "array"
         /\ \A i \in PointIds : fitst.writes[i] = 1 /\ fitst.uxy[i] # NaNRow
         /\ \A i \in fitst.mask.rows : fitst.uxy[i] = fitst.n

====
